---- MODULE Spec2Model ----
(***************************************************************************)
(* Credify: a model of the credit-claim workflow and the cached aggregate  *)
(* (credify_app.py), the daily time-series derivation, the authentication  *)
(* gate and session state (credify_app.py, auth.py), the photo-platform    *)
(* OAuth callback (credify_app.py, utils/instagram_oauth.py) and the       *)
(* redirect-URL resolution (auth.py).                                      *)
(*                                                                         *)
(* The module holds several specifications over one set of variables; each *)
(* one moves only the variables of its component and leaves the others at  *)
(* their initial value:                                                    *)
(*   Spec         the hosted database and the inline claim form            *)
(*   SpecSeries   fetch_user_daily_timeseries                              *)
(*   SpecSession  the session state, the authentication gate, the OAuth    *)
(*                callbacks                                                *)
(*   SpecRedirect get_redirect_url                                         *)
(*   SpecClients  the backend client of auth.py and the browser sessions   *)
(*   SpecExtract  extract_video_id and fetch_youtube_data                  *)
(*   SpecSearch   search_users                                             *)
(*   SpecJob      the scheduled ingestion job (lambda_handler)             *)
(*   SpecRefresh  the Refresh button and its cooldown                      *)
(*   SpecRace     two sessions submitting the same credit concurrently     *)
(*   SpecTool     the standalone claim tool (claim_role.py)                *)
(*   SpecInsights fetch_and_store_instagram_insights, parse_metric_response*)
(*   SpecRouting  the sidebar, the page override and the page buttons      *)
(*   SpecRestore  the session restoration of auth.py's module body         *)
(*   SpecStore    the stored insight records and the queries that read them*)
(*   SpecWindow   the range presets of the Analytics page                  *)
(*   SpecFollow   follow_user, unfollow_user, is_following                 *)
(*   SpecFeed     the Home feed                                            *)
(*   SpecMetric   the selected metric of the Analytics page                *)
(*   SpecRoles    the aggregates of a user with several roles on a project *)
(***************************************************************************)
EXTENDS Integers, Sequences, FiniteSets

VARIABLES
    \* ---- the hosted database and the claim form (Spec) ----
    now,             \* the UTC clock (datetime.utcnow()), one tick per handler run
    projects,        \* table projects: sequence of p_id, in insertion order
    youtube_metrics, \* table youtube_metrics: set of snapshot rows
    users,           \* table users: sequence of emails; u_id is the index
    user_projects,   \* table user_projects: sequence of credit rows
    user_metrics,    \* table user_metrics: u_id -> row or NoRow
    lastOp,          \* what the last handler run did (kind, user, writes)
    \* ---- fetch_user_daily_timeseries (SpecSeries) ----
    series,          \* the last call: its window and the frame it returned
    \* ---- one browser session (SpecSession) ----
    session_state,   \* st.session_state: the keys the gate and the pages use
    query_params,    \* st.query_params of the session
    screen,          \* what the last script run left on the page
    is_localhost_env,\* is_localhost(): the environment classification
    oauth_tokens,    \* table user_tokens: (user, platform) token records
    lastRun,         \* what the last script run did
    \* ---- get_redirect_url (SpecRedirect) ----
    redirect_cfg,    \* the environment: classification, configured URLs, port
    redirect_out,    \* the last call of get_redirect_url: its path and result
    \* ---- the backend client and the browser sessions (SpecClients) ----
    auth_module,     \* module auth in sys.modules: imported, its global supabase
    clients,         \* the clients made by create_client: who each is signed in as
    sessions,        \* st.session_state of each browser session
    lastCall,        \* the last backend call of auth.py: session and client
    \* ---- extract_video_id and fetch_youtube_data (SpecExtract) ----
    link,            \* the URL given to extract_video_id
    candidate,       \* the video_id given to fetch_youtube_data
    extract_out,     \* the last call of extract_video_id
    fetch_out,       \* the last call of fetch_youtube_data
    \* ---- search_users (SpecSearch) ----
    user_table,      \* table users as search_users reads it: u_id -> row
    viewer_id,       \* current_u_id
    search_last,     \* the last call of search_users: query and result
    search_prev,     \* the call before it
    \* ---- the scheduled ingestion job (SpecJob) ----
    job_env,         \* YOUTUBE_VIDEO_IDS, split at the commas
    job_rows,        \* table youtube_metrics as the job sees it, in insertion order
    job_day,         \* the UTC calendar day
    job_runs,        \* runs of the job so far
    job_last,        \* the last run: what it did with each video, its return
    \* ---- the Refresh button (SpecRefresh) ----
    refresh_now,     \* the clock, in ticks
    refresh_ss,      \* st.session_state: live_metrics, user_refresh_cooldown
    refresh_btn,     \* the button as the last script run rendered it
    refresh_log,     \* the times of the last two lookups made by the button
    \* ---- two sessions submitting one credit (SpecRace) ----
    race,            \* per session: where its submission stands, what its check saw
    \* ---- the photo-platform insights (SpecInsights) ----
    insights_in,     \* the metrics argument of fetch_and_store_instagram_insights
    insights_out,    \* the last call: the requests it issued, what it prepared
    parse_out,       \* the last call of parse_metric_response
    \* ---- the page routing (SpecRouting) ----
    nav_radio,       \* the page selected in the sidebar radio
    nav_ss,          \* st.session_state: page_override, selected_platform
    nav_account,     \* the viewer's photo-platform account: none, ok, expired
    nav_screen,      \* the page the last script run rendered, and its buttons
    nav_last,        \* the last click: the button, what the script run did
    \* ---- the session restoration (SpecRestore) ----
    restore_env,     \* is_localhost()
    restore_ss,      \* st.session_state: the two stored tokens
    restore_last,    \* the last run of auth.py's module body: answers, calls
    \* ---- the stored insight records (SpecStore) ----
    ig_table,        \* table instagram_insights: the inserted rows
    ig_query,        \* the last query of a reader: its arguments and its rows
    \* ---- the range presets of the Analytics page (SpecWindow) ----
    win_today,       \* datetime.now(timezone.utc).date(), as a day number
    win_out,         \* the last render: the preset, the window, the comparison
    \* ---- the follow edges (SpecFollow) ----
    user_follows,    \* table user_follows: (follower, followed) -> number of rows
    follow_last,     \* the last operation: its pair, the table before it
    \* ---- the Home feed (SpecFeed) ----
    feed_in,         \* all_activities: the new-project activities, then the updates
    feed_out,        \* the last render of the Home page: feed_items
    \* ---- the Analytics page (SpecMetric) ----
    an_ss,           \* st.session_state: analytics_view, selected_platform,
                     \* selected_analytics_metric ("" for an absent key)
    an_last,         \* the last render of the page: its metric options, its
                     \* buttons, whether the metric lookup raised KeyError
    \* ---- the aggregates over credit rows (SpecRoles) ----
    agg_credits,     \* select p_id from user_projects where u_id = the user:
                     \* one entry per credit row, in table order
    agg_table,       \* the table youtube_metrics
    agg_out          \* the last aggregate computed, with its arguments

dbVars == <<now, projects, youtube_metrics, users, user_projects,
            user_metrics, lastOp>>

\* What the handlers over the database leave alone.
sessVars == <<session_state, query_params, screen, is_localhost_env,
              oauth_tokens, lastRun>>
redirVars == <<redirect_cfg, redirect_out>>
clientVars == <<auth_module, clients, sessions, lastCall>>
\* The variables of the components added after the first four.
extractVars == <<link, candidate, extract_out, fetch_out>>
searchVars == <<user_table, viewer_id, search_last, search_prev>>
jobVars == <<job_env, job_rows, job_day, job_runs, job_last>>
refreshVars == <<refresh_now, refresh_ss, refresh_btn, refresh_log>>
raceVars == <<race>>
insightVars == <<insights_in, insights_out, parse_out>>
navVars == <<nav_radio, nav_ss, nav_account, nav_screen, nav_last>>
restoreVars == <<restore_env, restore_ss, restore_last>>
storeVars == <<ig_table, ig_query>>
windowVars == <<win_today, win_out>>
followVars == <<user_follows, follow_last>>
feedVars == <<feed_in, feed_out>>
metricVars == <<an_ss, an_last>>
rolesVars == <<agg_credits, agg_table, agg_out>>
laterVars ==
    <<clientVars, extractVars, searchVars, jobVars, refreshVars, raceVars,
      insightVars, navVars, restoreVars, storeVars, windowVars, followVars,
      feedVars, metricVars, rolesVars>>
otherThanDb == <<series, sessVars, redirVars, laterVars>>
firstVars == <<dbVars, series, sessVars, redirVars>>

vars == <<dbVars, series, sessVars, redirVars, laterVars>>

----------------------------------------------------------------------------
(* Bounds and input domains                                                *)

\* The clock stops the model here.  A handler run takes one tick: within a
\* run fetched_at is read before updated_at, and the code compares the two
\* with >= only, so one tick stands for both reads.
MaxTime == 3
\* Clock ticks per UTC calendar day.
TicksPerDay == 2

\* E-mails an identity can carry, as the identity backend reports them.
Viewers == {"Ann@x.io", "bob@x.io"}

\* str.lower() on the e-mails of the model.
Lower(e) == IF e = "Ann@x.io" THEN "ann@x.io" ELSE e

\* 11-character video identifiers.
Videos == {"v1", "v2"}

\* Rows of the roles table as "category - role" entries.  No category or role
\* name of the model holds the separator " - ".
PostEditor == [category |-> "Post", role |-> "Editor"]
ProdEditor == [category |-> "Production", role |-> "Editor"]
ProdDirector == [category |-> "Production", role |-> "Director"]
RoleEntries == {PostEditor, ProdEditor, ProdDirector}

\* Claim drafts the model submits: sequences the Add Role button can build
\* (no entry twice), the empty draft included.
Drafts == { <<>>, <<PostEditor>>,
            <<PostEditor, ProdEditor>>, <<ProdEditor, ProdDirector>> }

\* The cumulative statistics the video platform reports at time t: one answer
\* per tick, so that every snapshot of the model carries its own counts.
StatsAt(t) == { [view_count |-> 5 + 2 * t, like_count |-> 2 + t, comment_count |-> 1] }

\* fetch_youtube_data returns None (non-OK answer, no items, bad identifier).
NoData == [view_count |-> -1, like_count |-> -1, comment_count |-> -1]

\* URLs pasted into the form: the shape and the identifier that follows it
\* (watch?v=<id>, youtu.be/<id>, embed/<id>, and a URL with none of them).
\* A URL is a sequence of lexemes.  Lit is a piece of text without a run of
\* 11 identifier characters; IdRun is a maximal run of n characters of
\* [a-zA-Z0-9_-], named by its text, whose first 11 characters (when it has
\* as many) are the identifier head.
Lit(text) == [t |-> text, n |-> 0, head |-> ""]
IdRun(text, n, head) == [t |-> text, n |-> n, head |-> head]
VideoRun(id) == IdRun(id, 11, id)
WatchUrl(run) == <<Lit("https://www.youtube.com/"), Lit("watch?"), Lit("v="), run>>
ShortUrl(run) == <<Lit("https://"), Lit("youtu"), Lit("."), Lit("be/"), run>>
EmbedUrl(run) == <<Lit("https://www.youtube.com/"), Lit("embed/"), run>>
ShortsPageUrl(run) == <<Lit("https://www.youtube.com/"), Lit("shorts/"), run>>
Urls == { WatchUrl(VideoRun(id)) : id \in Videos } \cup
        { ShortUrl(VideoRun("v1")), EmbedUrl(VideoRun("v1")), ShortsPageUrl(VideoRun("v1")) }

NoId == "none"
\* An absent session key, query parameter or Python None.
None == "none"
\* The identity of demo mode.
DemoUser == "demo_user@example.com"
\* st.session_state after clear(): no key is present.  A cached value is
\* modelled by the identity it was written for; oauth_just_completed absent
\* reads as False.
EmptySession ==
    [user |-> None, live_metrics |-> None, selected_roles |-> None,
     user_refresh_cooldown |-> FALSE, oauth_just_completed |-> FALSE,
     has_stored_tokens |-> FALSE, instagram_oauth_state |-> None]
\* A request without query parameters.
NoParams == [code |-> None, state |-> None, error |-> FALSE]
\* Before the first script run of a session.
\* content: page content was rendered; must_check: the run began with a
\* cached non-demo identity, no callback for the identity backend in the
\* request, the just-completed flag false and not (local with stored tokens);
\* who_ok: in such a run, the who-am-I answer named the cached e-mail;
\* ig_exchange: exchange_code_for_token was called; had_code and csrf_match:
\* the request carried a code, and a state equal to the session's
\* instagram_oauth_state; authed and still_in: a viewer was signed in when
\* the run began, and is still; platform_ok: the photo platform answers
\* successfully; gate: the run got as far as the gate's validity check;
\* flag_before: oauth_just_completed was true when the run began; validated:
\* the gate asked the backend who the viewer is; login_code: show_login
\* submitted the request's code for exchange.
NoRun == [content |-> FALSE, must_check |-> FALSE, who_ok |-> FALSE,
          ig_exchange |-> FALSE, had_code |-> FALSE, csrf_match |-> FALSE,
          authed |-> FALSE, still_in |-> FALSE, platform_ok |-> TRUE,
          gate |-> FALSE, flag_before |-> FALSE, validated |-> FALSE,
          login_code |-> None]
InitSessionIdle ==
    /\ session_state = EmptySession
    /\ query_params = NoParams
    /\ screen = "none"
    /\ is_localhost_env = FALSE
    /\ oauth_tokens = {}
    /\ lastRun = NoRun

\* No URL: None as a result, and the result before any call.
NoUrl == [scheme |-> "", host |-> "", port |-> 0, path |-> <<>>]
\* A configuration source that is not set.
Unset == [kind |-> "unset", scheme |-> "", host |-> "", port |-> 0, path |-> <<>>,
          slash |-> FALSE]
InitRedirectIdle ==
    /\ redirect_cfg = [is_local |-> FALSE, candidates |-> <<>>, server_port |-> 0]
    /\ redirect_out = [called |-> FALSE, path |-> <<>>, url |-> NoUrl]

\* The browser sessions served by one server process.
Sessions == {1, 2}
\* No backend call yet.
NoCall == [s |-> 0, op |-> "none", client |-> 0, cached |-> 0, who |-> None]
InitClientsIdle ==
    /\ auth_module = [imported |-> FALSE, supabase |-> 0]
    /\ clients = <<>>
    /\ sessions = [s \in Sessions |-> [supabase_client |-> 0, user |-> None]]
    /\ lastCall = NoCall
\* No call of extract_video_id or fetch_youtube_data yet.
NoExtract == [called |-> FALSE, id |-> NoId]
NoFetch == [called |-> FALSE, requested |-> FALSE, data |-> FALSE]
InitExtractIdle ==
    /\ link = <<>>
    /\ candidate = <<>>
    /\ extract_out = NoExtract
    /\ fetch_out = NoFetch
\* No call of search_users yet.
NoSearch == [called |-> FALSE, query |-> <<>>, result |-> <<>>]
InitSearchIdle ==
    /\ user_table = <<>>
    /\ viewer_id = 0
    /\ search_last = NoSearch
    /\ search_prev = NoSearch
\* The job has not run.
NoJobRun == [ran |-> FALSE, returned |-> FALSE, count |-> 0, log |-> <<>>]
InitJobIdle ==
    /\ job_env = <<>>
    /\ job_rows = <<>>
    /\ job_day = 0
    /\ job_runs = 0
    /\ job_last = NoJobRun
\* No page with the Refresh button has been rendered.
NoButton == [page |-> "none", at |-> 0, disabled |-> FALSE, label |-> -1]
InitRefreshIdle ==
    /\ refresh_now = 0
    /\ refresh_ss = [live_metrics |-> FALSE, user_refresh_cooldown |-> 0]
    /\ refresh_btn = NoButton
    /\ refresh_log = [last |-> -1, prev |-> -1, last_data |-> FALSE]
\* No session has begun a submission.
NoSubmission == [pc |-> "idle", role |-> "", found |-> FALSE, done |-> 0, inserted |-> {}]
InitRaceIdle == race = [s \in Sessions |-> NoSubmission]
\* No call of the insights functions yet.
NoInsights == [called |-> FALSE, requests |-> <<>>, success |-> FALSE,
               total_inserted |-> 0, total_errors |-> 0]
\* An API response: present is false for None (the request failed);
\* has_data says that the dictionary has the key "data"; data is the array.
ApiResponse(present, has_data, data) ==
    [present |-> present, has_data |-> has_data, data |-> data]
NoResponse == ApiResponse(FALSE, FALSE, <<>>)
NoParse == [called |-> FALSE, metric |-> "", response |-> NoResponse, records |-> 0,
            raised |-> FALSE]
InitInsightsIdle ==
    /\ insights_in = <<>>
    /\ insights_out = NoInsights
    /\ parse_out = NoParse
\* No script run has rendered a page, no button has been clicked.
NoScreen == [page |-> "none", buttons |-> {}]
NoClick == [button |-> "none", on |-> "none", handled |-> FALSE, fetched |-> FALSE,
            shown |-> "none"]
InitRoutingIdle ==
    /\ nav_radio = "Profile"
    /\ nav_ss = [page_override |-> "", selected_platform |-> ""]
    /\ nav_account = "none"
    /\ nav_screen = NoScreen
    /\ nav_last = NoClick
\* No stored tokens; the module body has not run.
NoTokens == [supabase_access_token |-> None, supabase_refresh_token |-> None]
NoRestore == [ran |-> FALSE, before |-> NoTokens, after |-> NoTokens, gs |-> "",
              set_raises |-> FALSE, rf |-> "", calls |-> <<>>]
InitRestoreIdle ==
    /\ restore_env = FALSE
    /\ restore_ss = NoTokens
    /\ restore_last = NoRestore
\* No insight record stored, no query made.
NoQuery == [reader |-> "none", u_id |-> 0, metric |-> "", start |-> 0, end |-> 0,
            table |-> {}, rows |-> {}]
InitStoreIdle ==
    /\ ig_table = {}
    /\ ig_query = NoQuery
\* The Analytics page has not been rendered.
NoWindow == [preset |-> "", today |-> 0, start_date |-> 0, end_date |-> 0,
             period_days |-> 0, prev_start |-> 0, prev_end |-> 0]
InitWindowIdle ==
    /\ win_today = 0
    /\ win_out = NoWindow
\* The users who follow each other, the pairs, the empty table.
FollowUsers == {1, 2, 3}
FollowPairs == {p \in FollowUsers \X FollowUsers : p[1] # p[2]}
NoFollows == [p \in FollowPairs |-> 0]
NoFollowOp == [op |-> "none", pair |-> <<0, 0>>, before |-> NoFollows]
InitFollowIdle ==
    /\ user_follows = NoFollows
    /\ follow_last = NoFollowOp
\* The Home page has not been rendered.
NoFeed == [built |-> FALSE, items |-> <<>>]
InitFeedIdle ==
    /\ feed_in = <<>>
    /\ feed_out = NoFeed
\* The Analytics page has not been rendered.
NoAnalytics == [rendered |-> FALSE, yt_data |-> FALSE, ig_data |-> FALSE,
                options |-> <<>>, buttons |-> {},
                looked_up |-> FALSE, key_error |-> FALSE]
InitMetricIdle ==
    /\ an_ss = [analytics_view |-> "", selected_platform |-> "",
                selected_analytics_metric |-> ""]
    /\ an_last = NoAnalytics
\* No aggregate has been computed.
NoAggregate == [kind |-> "none", known |-> {}, repeats |-> FALSE,
                start |-> -1, end |-> -1, value |-> <<>>]
InitRolesIdle == agg_credits = <<>> /\ agg_table = {} /\ agg_out = NoAggregate
\* The components added after the first four, before they run.
InitLaterIdle ==
    /\ InitClientsIdle /\ InitExtractIdle /\ InitSearchIdle /\ InitJobIdle
    /\ InitRefreshIdle /\ InitRaceIdle /\ InitInsightsIdle /\ InitRoutingIdle
    /\ InitRestoreIdle /\ InitStoreIdle /\ InitWindowIdle /\ InitFollowIdle
    /\ InitFeedIdle /\ InitMetricIdle /\ InitRolesIdle

\* No time series has been asked for.
NoSeries == [u |-> 0, start |-> -1, end |-> -1, out |-> <<>>]
NoRow == [total_view_count |-> -1, total_like_count |-> -1,
          total_comment_count |-> -1, updated_at |-> -1]

----------------------------------------------------------------------------
(* Pure helpers                                                            *)

\* The non-capturing group of the pattern
\* r"(?:v=|youtu\\.be/|embed/)([a-zA-Z0-9_-]{11})" tried at lexeme i: the
\* number of lexemes it consumes, 0 when no alternative matches.  In the raw
\* string the second alternative is "youtu", a literal backslash, any one
\* character, "be/".
OneChar(tok) == tok.t \in {".", "x", "\\"}
PrefixLen(url, i) ==
    CASE url[i].t = "v=" -> 1
      [] /\ i + 3 <= Len(url)
         /\ url[i].t = "youtu" /\ url[i + 1].t = "\\"
         /\ OneChar(url[i + 2]) /\ url[i + 3].t = "be/" -> 4
      [] url[i].t = "embed/" -> 1
      [] OTHER -> 0
\* The whole pattern matches at lexeme i: the group, then 11 characters of
\* [a-zA-Z0-9_-].
MatchAt(url, i) ==
    /\ PrefixLen(url, i) > 0
    /\ i + PrefixLen(url, i) <= Len(url)
    /\ url[i + PrefixLen(url, i)].n >= 11
\* re.search(pattern, url); match.group(1) if match else None
extract_video_id(url) ==
    LET hits == { i \in 1..Len(url) : MatchAt(url, i) }
    IN  IF hits = {} THEN NoId
        ELSE LET i == CHOOSE j \in hits : \A k \in hits : j <= k
             IN  url[i + PrefixLen(url, i)].head

\* role_entry.split(" - ")[1]
RoleName(entry) == entry.role

\* The set of elements of a sequence.
Range(s) == { s[i] : i \in 1..Len(s) }

\* The u_id of the users row with this (lower-cased) e-mail, 0 when absent.
UserIdOf(us, email) ==
    IF \E i \in 1..Len(us) : us[i] = email
    THEN CHOOSE i \in 1..Len(us) : us[i] = email
    ELSE 0

\* select p_id from user_projects where u_id = u: one entry per credit row.
ProjectIdsOf(ups, u) == { ups[i].p_id : i \in { j \in 1..Len(ups) : ups[j].u_id = u } }

\* The latest snapshot per project among pids: order by fetched_at desc and
\* keep the first row of each p_id.
LatestMetrics(ms, pids) ==
    { m \in ms : /\ m.p_id \in pids
                 /\ \A o \in ms : o.p_id = m.p_id => o.fetched_at <= m.fetched_at }

RECURSIVE SumCol(_, _)
\* sum(m.get(col, 0) or 0 for m in rows)
SumCol(rows, col) ==
    IF rows = {} THEN 0
    ELSE LET r == CHOOSE x \in rows : TRUE
         IN  r[col] + SumCol(rows \ {r}, col)

\* max of a non-empty set of integers
MaxOf(S) == CHOOSE x \in S : \A y \in S : y <= x

\* The row update_user_metrics upserts for the rows `latest` at time t.
AggregateRow(latest, t) ==
    [total_view_count    |-> SumCol(latest, "view_count"),
     total_like_count    |-> SumCol(latest, "like_count"),
     total_comment_count |-> SumCol(latest, "comment_count"),
     updated_at          |-> t]

ZeroRow(t) ==
    [total_view_count |-> 0, total_like_count |-> 0,
     total_comment_count |-> 0, updated_at |-> t]

\* The guard with a missing cached row taken for a fresh one.
FreshnessGuardNoRow(um, u, latest) ==
    \/ um[u] = NoRow
    \/ um[u].updated_at >= CHOOSE x \in { m.fetched_at : m \in latest } :
                               \A m \in latest : m.fetched_at <= x

\* The freshness guard of update_user_metrics: the cached row exists and its
\* updated_at is not older than the newest contributing snapshot.
FreshnessGuard(um, u, latest) ==
    /\ um[u] # NoRow
    /\ um[u].updated_at >= MaxOf({ m.fetched_at : m \in latest })

\* update_user_metrics(u_id) at time t: the user_metrics table afterwards and
\* whether the call upserted a row.
update_user_metrics(u, ups, ms, um, t) ==
    LET project_ids == ProjectIdsOf(ups, u)
        latest      == LatestMetrics(ms, project_ids)
    IN  IF project_ids = {}
        THEN [um |-> [um EXCEPT ![u] = ZeroRow(t)], wrote |-> TRUE]
        ELSE IF latest = {}
        THEN [um |-> [um EXCEPT ![u] = ZeroRow(t)], wrote |-> TRUE]
        ELSE IF FreshnessGuard(um, u, latest)
        THEN [um |-> um, wrote |-> FALSE]
        ELSE [um |-> [um EXCEPT ![u] = AggregateRow(latest, t)], wrote |-> TRUE]

\* select u_id from user_projects where u_id = u and p_id = p and u_role = rn
CreditExistsNever(ups, u, p, rn) == FALSE

CreditExists(ups, u, p, rn) ==
    \E i \in 1..Len(ups) : ups[i] = [u_id |-> u, p_id |-> p, u_role |-> rn]

RECURSIVE InsertCredits(_, _, _, _)
\* The loop over selected_roles: one insert per role not already present.
InsertCredits(ups, u, p, roles) ==
    IF roles = <<>> THEN ups
    ELSE LET rn  == RoleName(Head(roles))
             row == [u_id |-> u, p_id |-> p, u_role |-> rn]
         IN  InsertCredits(IF CreditExists(ups, u, p, rn) THEN ups ELSE Append(ups, row),
                           u, p, Tail(roles))

\* users.upsert(..., on_conflict=["u_email"]): a new row only for a new e-mail.
UpsertUser(us, email) == IF UserIdOf(us, email) = 0 THEN Append(us, email) ELSE us

\* The lower-cased e-mails, and the identifiers the users table can hand out.
LowerEmails == { Lower(e) : e \in Viewers }
UserIds == 1..Cardinality(LowerEmails)

\* The UTC calendar day of a time stamp.
DayOf(t) == t \div TicksPerDay

\* n times the same table name, for the write log.
Times(n, name) == [i \in 1..n |-> name]

\* A snapshot row of youtube_metrics.
Snapshot(p, t, answer) ==
    [p_id |-> p, fetched_at |-> t, view_count |-> answer.view_count,
     like_count |-> answer.like_count, comment_count |-> answer.comment_count]

DbEmpty ==
    /\ projects = <<>> /\ youtube_metrics = {} /\ users = <<>>
    /\ user_projects = <<>> /\ \A u \in UserIds : user_metrics[u] = NoRow

----------------------------------------------------------------------------
(* Spec: the hosted database and the inline claim form                     *)

InitDb ==
    /\ now = 0
    /\ projects = <<>>
    /\ youtube_metrics = {}
    /\ users = <<>>
    /\ user_projects = <<>>
    /\ user_metrics = [u \in UserIds |-> NoRow]
    /\ lastOp = [kind |-> "init", ok |-> TRUE, u |-> 0, writes |-> <<>>]

\* ensure_user_in_db(user), run by show_login after a sign-in: insert the row
\* when no row has the lower-cased e-mail.
EnsureUserInDb(e) ==
    /\ now + 1 <= MaxTime
    /\ now' = now + 1
    /\ UNCHANGED otherThanDb
    /\ users' = UpsertUser(users, Lower(e))
    /\ lastOp' = [kind |-> "login", ok |-> TRUE, u |-> UserIdOf(users', Lower(e)),
                  writes |-> IF users' # users THEN <<"users">> ELSE <<>>]
    /\ UNCHANGED <<projects, youtube_metrics, user_projects, user_metrics>>

\* The Claim Role button of render_add_credit_form, pressed by the session of
\* the identity e with the draft selected_roles.  answer is what
\* fetch_youtube_data returns for a video not yet in projects; snapFails says
\* that the backend rejects the snapshot insert, which ends the handler with
\* the project row already written.
ClaimRole(e, selected_roles, url, answer, snapFails) ==
    LET video_id   == extract_video_id(url)
        email      == Lower(e)
        existing   == video_id \in Range(projects)
        fetched_at == now
        users1     == UpsertUser(users, email)
        u_id       == UserIdOf(users1, email)
        ups1       == InsertCredits(user_projects, u_id, video_id, selected_roles)
        res        == update_user_metrics(u_id, ups1, youtube_metrics', user_metrics, now)
        stopped    == [kind |-> "claim", ok |-> FALSE, u |-> 0, writes |-> <<>>]
    IN
    /\ now + 1 <= MaxTime
    /\ now' = now + 1
    /\ UNCHANGED otherThanDb
    /\ IF selected_roles = <<>> \/ video_id = NoId \/ (~existing /\ answer = NoData)
       THEN \* st.error and st.stop() before any write
            /\ lastOp' = stopped
            /\ UNCHANGED <<projects, youtube_metrics, users, user_projects, user_metrics>>
       ELSE IF ~existing /\ snapFails
       THEN /\ projects' = Append(projects, video_id)
            /\ lastOp' = [stopped EXCEPT !.writes = <<"projects">>]
            /\ UNCHANGED <<youtube_metrics, users, user_projects, user_metrics>>
       ELSE /\ projects' = IF existing THEN projects ELSE Append(projects, video_id)
            /\ youtube_metrics' =
                 IF existing \/ \E m \in youtube_metrics :
                                    m.p_id = video_id /\ m.fetched_at = fetched_at
                 THEN youtube_metrics
                 ELSE youtube_metrics \cup {Snapshot(video_id, fetched_at, answer)}
            /\ users' = users1
            /\ user_projects' = ups1
            /\ user_metrics' = res.um
            /\ lastOp' = [kind |-> "claim", ok |-> TRUE, u |-> u_id,
                          writes |->
                            (IF projects' # projects THEN <<"projects">> ELSE <<>>)
                            \o (IF youtube_metrics' # youtube_metrics
                                THEN <<"youtube_metrics">> ELSE <<>>)
                            \o <<"users">>
                            \o Times(Len(ups1) - Len(user_projects), "user_projects")
                            \o (IF res.wrote THEN <<"user_metrics">> ELSE <<>>)]

\* One video of the scheduled ingestion job: fetch the statistics, skip when
\* a snapshot of today exists (unless the check itself fails), insert.
IngestSnapshot(vid, answer, checkOk) ==
    /\ now + 1 <= MaxTime
    /\ now' = now + 1
    /\ UNCHANGED otherThanDb
    /\ LET today == { m \in youtube_metrics :
                        m.p_id = vid /\ DayOf(m.fetched_at) >= DayOf(now) }
           skip  == answer = NoData \/ (checkOk /\ today # {})
       IN  /\ youtube_metrics' =
                IF skip THEN youtube_metrics
                ELSE youtube_metrics \cup {Snapshot(vid, now, answer)}
           /\ lastOp' = [kind |-> "ingest", ok |-> ~skip, u |-> 0,
                         writes |-> IF skip THEN <<>> ELSE <<"youtube_metrics">>]
    /\ UNCHANGED <<projects, users, user_projects, user_metrics>>

\* update_user_metrics(u_id) called on its own.
Recompute(u) ==
    /\ u \in 1..Len(users)
    /\ now + 1 <= MaxTime
    /\ now' = now + 1
    /\ UNCHANGED otherThanDb
    /\ LET res == update_user_metrics(u, user_projects, youtube_metrics, user_metrics, now)
       IN  /\ user_metrics' = res.um
           /\ lastOp' = [kind |-> "recompute", ok |-> TRUE, u |-> u,
                         writes |-> IF res.wrote THEN <<"user_metrics">> ELSE <<>>]
    /\ UNCHANGED <<projects, youtube_metrics, users, user_projects>>

NextDb ==
    \/ \E e \in Viewers : EnsureUserInDb(e)
    \/ \E e \in Viewers, roles \in Drafts, url \in Urls,
          answer \in StatsAt(now) \cup {NoData}, snapFails \in BOOLEAN :
          ClaimRole(e, roles, url, answer, snapFails)
    \/ \E vid \in Videos, answer \in StatsAt(now) \cup {NoData}, checkOk \in BOOLEAN :
          IngestSnapshot(vid, answer, checkOk)
    \/ \E u \in UserIds : Recompute(u)

Init == InitDb /\ series = NoSeries /\ InitSessionIdle /\ InitRedirectIdle /\ InitLaterIdle
\* The first four components before they run.
InitFirstIdle == InitDb /\ series = NoSeries /\ InitSessionIdle /\ InitRedirectIdle

\* For each later component: the variables it leaves alone, and the other
\* components before they run.
otherThanClients ==
    <<firstVars, extractVars, searchVars, jobVars, refreshVars, raceVars,
      insightVars, navVars, restoreVars, storeVars, windowVars, followVars,
      feedVars, metricVars, rolesVars>>
IdleOtherThanClients ==
    /\ InitFirstIdle /\ InitExtractIdle /\ InitSearchIdle /\ InitJobIdle
    /\ InitRefreshIdle /\ InitRaceIdle /\ InitInsightsIdle /\ InitRoutingIdle
    /\ InitRestoreIdle /\ InitStoreIdle /\ InitWindowIdle /\ InitFollowIdle
    /\ InitFeedIdle /\ InitMetricIdle /\ InitRolesIdle
otherThanExtract ==
    <<firstVars, clientVars, searchVars, jobVars, refreshVars, raceVars,
      insightVars, navVars, restoreVars, storeVars, windowVars, followVars,
      feedVars, metricVars, rolesVars>>
IdleOtherThanExtract ==
    /\ InitFirstIdle /\ InitClientsIdle /\ InitSearchIdle /\ InitJobIdle
    /\ InitRefreshIdle /\ InitRaceIdle /\ InitInsightsIdle /\ InitRoutingIdle
    /\ InitRestoreIdle /\ InitStoreIdle /\ InitWindowIdle /\ InitFollowIdle
    /\ InitFeedIdle /\ InitMetricIdle /\ InitRolesIdle
otherThanSearch ==
    <<firstVars, clientVars, extractVars, jobVars, refreshVars, raceVars,
      insightVars, navVars, restoreVars, storeVars, windowVars, followVars,
      feedVars, metricVars, rolesVars>>
IdleOtherThanSearch ==
    /\ InitFirstIdle /\ InitClientsIdle /\ InitExtractIdle /\ InitJobIdle
    /\ InitRefreshIdle /\ InitRaceIdle /\ InitInsightsIdle /\ InitRoutingIdle
    /\ InitRestoreIdle /\ InitStoreIdle /\ InitWindowIdle /\ InitFollowIdle
    /\ InitFeedIdle /\ InitMetricIdle /\ InitRolesIdle
otherThanJob ==
    <<firstVars, clientVars, extractVars, searchVars, refreshVars, raceVars,
      insightVars, navVars, restoreVars, storeVars, windowVars, followVars,
      feedVars, metricVars, rolesVars>>
IdleOtherThanJob ==
    /\ InitFirstIdle /\ InitClientsIdle /\ InitExtractIdle /\ InitSearchIdle
    /\ InitRefreshIdle /\ InitRaceIdle /\ InitInsightsIdle /\ InitRoutingIdle
    /\ InitRestoreIdle /\ InitStoreIdle /\ InitWindowIdle /\ InitFollowIdle
    /\ InitFeedIdle /\ InitMetricIdle /\ InitRolesIdle
otherThanRefresh ==
    <<firstVars, clientVars, extractVars, searchVars, jobVars, raceVars,
      insightVars, navVars, restoreVars, storeVars, windowVars, followVars,
      feedVars, metricVars, rolesVars>>
IdleOtherThanRefresh ==
    /\ InitFirstIdle /\ InitClientsIdle /\ InitExtractIdle /\ InitSearchIdle
    /\ InitJobIdle /\ InitRaceIdle /\ InitInsightsIdle /\ InitRoutingIdle
    /\ InitRestoreIdle /\ InitStoreIdle /\ InitWindowIdle /\ InitFollowIdle
    /\ InitFeedIdle /\ InitMetricIdle /\ InitRolesIdle
otherThanRace ==
    <<firstVars, clientVars, extractVars, searchVars, jobVars, refreshVars,
      insightVars, navVars, restoreVars, storeVars, windowVars, followVars,
      feedVars, metricVars, rolesVars>>
IdleOtherThanRace ==
    /\ InitFirstIdle /\ InitClientsIdle /\ InitExtractIdle /\ InitSearchIdle
    /\ InitJobIdle /\ InitRefreshIdle /\ InitInsightsIdle /\ InitRoutingIdle
    /\ InitRestoreIdle /\ InitStoreIdle /\ InitWindowIdle /\ InitFollowIdle
    /\ InitFeedIdle /\ InitMetricIdle /\ InitRolesIdle
otherThanInsights ==
    <<firstVars, clientVars, extractVars, searchVars, jobVars, refreshVars,
      raceVars, navVars, restoreVars, storeVars, windowVars, followVars,
      feedVars, metricVars, rolesVars>>
IdleOtherThanInsights ==
    /\ InitFirstIdle /\ InitClientsIdle /\ InitExtractIdle /\ InitSearchIdle
    /\ InitJobIdle /\ InitRefreshIdle /\ InitRaceIdle /\ InitRoutingIdle
    /\ InitRestoreIdle /\ InitStoreIdle /\ InitWindowIdle /\ InitFollowIdle
    /\ InitFeedIdle /\ InitMetricIdle /\ InitRolesIdle
otherThanRouting ==
    <<firstVars, clientVars, extractVars, searchVars, jobVars, refreshVars,
      raceVars, insightVars, restoreVars, storeVars, windowVars, followVars,
      feedVars, metricVars, rolesVars>>
IdleOtherThanRouting ==
    /\ InitFirstIdle /\ InitClientsIdle /\ InitExtractIdle /\ InitSearchIdle
    /\ InitJobIdle /\ InitRefreshIdle /\ InitRaceIdle /\ InitInsightsIdle
    /\ InitRestoreIdle /\ InitStoreIdle /\ InitWindowIdle /\ InitFollowIdle
    /\ InitFeedIdle /\ InitMetricIdle /\ InitRolesIdle
otherThanRestore ==
    <<firstVars, clientVars, extractVars, searchVars, jobVars, refreshVars,
      raceVars, insightVars, navVars, storeVars, windowVars, followVars,
      feedVars, metricVars, rolesVars>>
IdleOtherThanRestore ==
    /\ InitFirstIdle /\ InitClientsIdle /\ InitExtractIdle /\ InitSearchIdle
    /\ InitJobIdle /\ InitRefreshIdle /\ InitRaceIdle /\ InitInsightsIdle
    /\ InitRoutingIdle /\ InitStoreIdle /\ InitWindowIdle /\ InitFollowIdle
    /\ InitFeedIdle /\ InitMetricIdle /\ InitRolesIdle
otherThanStore ==
    <<firstVars, clientVars, extractVars, searchVars, jobVars, refreshVars,
      raceVars, insightVars, navVars, restoreVars, windowVars, followVars,
      feedVars, metricVars, rolesVars>>
IdleOtherThanStore ==
    /\ InitFirstIdle /\ InitClientsIdle /\ InitExtractIdle /\ InitSearchIdle
    /\ InitJobIdle /\ InitRefreshIdle /\ InitRaceIdle /\ InitInsightsIdle
    /\ InitRoutingIdle /\ InitRestoreIdle /\ InitWindowIdle /\ InitFollowIdle
    /\ InitFeedIdle /\ InitMetricIdle /\ InitRolesIdle
otherThanWindow ==
    <<firstVars, clientVars, extractVars, searchVars, jobVars, refreshVars,
      raceVars, insightVars, navVars, restoreVars, storeVars, followVars,
      feedVars, metricVars, rolesVars>>
IdleOtherThanWindow ==
    /\ InitFirstIdle /\ InitClientsIdle /\ InitExtractIdle /\ InitSearchIdle
    /\ InitJobIdle /\ InitRefreshIdle /\ InitRaceIdle /\ InitInsightsIdle
    /\ InitRoutingIdle /\ InitRestoreIdle /\ InitStoreIdle /\ InitFollowIdle
    /\ InitFeedIdle /\ InitMetricIdle /\ InitRolesIdle
otherThanFollow ==
    <<firstVars, clientVars, extractVars, searchVars, jobVars, refreshVars,
      raceVars, insightVars, navVars, restoreVars, storeVars, windowVars,
      feedVars, metricVars, rolesVars>>
IdleOtherThanFollow ==
    /\ InitFirstIdle /\ InitClientsIdle /\ InitExtractIdle /\ InitSearchIdle
    /\ InitJobIdle /\ InitRefreshIdle /\ InitRaceIdle /\ InitInsightsIdle
    /\ InitRoutingIdle /\ InitRestoreIdle /\ InitStoreIdle /\ InitWindowIdle
    /\ InitFeedIdle /\ InitMetricIdle /\ InitRolesIdle
otherThanFeed ==
    <<firstVars, clientVars, extractVars, searchVars, jobVars, refreshVars,
      raceVars, insightVars, navVars, restoreVars, storeVars, windowVars,
      followVars, metricVars, rolesVars>>
IdleOtherThanFeed ==
    /\ InitFirstIdle /\ InitClientsIdle /\ InitExtractIdle /\ InitSearchIdle
    /\ InitJobIdle /\ InitRefreshIdle /\ InitRaceIdle /\ InitInsightsIdle
    /\ InitRoutingIdle /\ InitRestoreIdle /\ InitStoreIdle /\ InitWindowIdle
    /\ InitFollowIdle /\ InitMetricIdle /\ InitRolesIdle
otherThanMetric ==
    <<firstVars, clientVars, extractVars, searchVars, jobVars, refreshVars,
      raceVars, insightVars, navVars, restoreVars, storeVars, windowVars,
      followVars, feedVars, rolesVars>>
IdleOtherThanMetric ==
    /\ InitFirstIdle /\ InitClientsIdle /\ InitExtractIdle /\ InitSearchIdle
    /\ InitJobIdle /\ InitRefreshIdle /\ InitRaceIdle /\ InitInsightsIdle
    /\ InitRoutingIdle /\ InitRestoreIdle /\ InitStoreIdle /\ InitWindowIdle
    /\ InitFollowIdle /\ InitFeedIdle /\ InitRolesIdle
otherThanRoles ==
    <<firstVars, clientVars, extractVars, searchVars, jobVars, refreshVars,
      raceVars, insightVars, navVars, restoreVars, storeVars, windowVars,
      followVars, feedVars, metricVars>>
IdleOtherThanRoles ==
    /\ InitFirstIdle /\ InitClientsIdle /\ InitExtractIdle /\ InitSearchIdle
    /\ InitJobIdle /\ InitRefreshIdle /\ InitRaceIdle /\ InitInsightsIdle
    /\ InitRoutingIdle /\ InitRestoreIdle /\ InitStoreIdle /\ InitWindowIdle
    /\ InitFollowIdle /\ InitFeedIdle /\ InitMetricIdle
Next == NextDb
Spec == Init /\ [][Next]_vars

----------------------------------------------------------------------------
(* Properties of the claim form and the cached aggregate (Spec)            *)

\* The totals update_user_metrics is meant to hold for user u: the sums over
\* the latest snapshot of every project u is credited on.
ExpectedTotals(u) ==
    LET latest == LatestMetrics(youtube_metrics, ProjectIdsOf(user_projects, u))
    IN  [total_view_count    |-> SumCol(latest, "view_count"),
         total_like_count    |-> SumCol(latest, "like_count"),
         total_comment_count |-> SumCol(latest, "comment_count")]

CachedTotals(u) ==
    [total_view_count    |-> user_metrics[u].total_view_count,
     total_like_count    |-> user_metrics[u].total_like_count,
     total_comment_count |-> user_metrics[u].total_comment_count]

\* C1: with claim submissions run one after another, user_projects holds at
\* most one row per (user, project, role): a combination that already exists
\* is never inserted again.
C1_OneCreditPerTriple ==
    \A i, j \in 1..Len(user_projects) :
        user_projects[i] = user_projects[j] => i = j

\* C1 witness: a successful submission whose every (user, project, role) was
\* already present, so that it inserted no credit row.
C1_ResubmissionSeen ==
    /\ lastOp.kind = "claim" /\ lastOp.ok
    /\ "user_projects" \notin Range(lastOp.writes)
    /\ Len(user_projects) >= 2

\* C2: from the empty database, one successful claim of a single role on a
\* video not seen before leaves one project, one snapshot of it, one user
\* with the lower-cased e-mail and one credit, written in the order project,
\* snapshot, user, credit, aggregate.
C2_FirstClaimWrites ==
    [][ \A e \in Viewers, roles \in Drafts, url \in Urls, answer \in StatsAt(now) :
          ( /\ DbEmpty
            /\ Len(roles) = 1
            /\ ClaimRole(e, roles, url, answer, FALSE)
            /\ lastOp'.ok )
          => /\ projects' = <<extract_video_id(url)>>
             /\ youtube_metrics' = {Snapshot(extract_video_id(url), now, answer)}
             /\ users' = <<Lower(e)>>
             /\ user_projects' = << [u_id |-> 1, p_id |-> extract_video_id(url),
                                     u_role |-> RoleName(roles[1])] >>
             /\ user_metrics'[1] # NoRow
             /\ lastOp'.writes = <<"projects", "youtube_metrics", "users",
                                   "user_projects", "user_metrics">>
      ]_vars

\* C2 witness: the first handler run was a successful claim that created the
\* project and one credit.
C2_FirstClaimSeen ==
    /\ now = 1
    /\ lastOp.kind = "claim" /\ lastOp.ok
    /\ Len(projects) = 1 /\ Len(user_projects) = 1 /\ users = <<"ann@x.io">>

\* C3: after every successful claim submission the cached aggregate of the
\* claimant equals the sums over the latest snapshot of every project the
\* claimant is credited on, a project that existed before included.
C3_AggregateAfterClaim ==
    (lastOp.kind = "claim" /\ lastOp.ok)
        => /\ user_metrics[lastOp.u] # NoRow
           /\ CachedTotals(lastOp.u) = ExpectedTotals(lastOp.u)

\* C4: of two immediately successive calls of update_user_metrics for one
\* user, with no snapshot inserted in between, the second writes nothing.
C4_SecondRecomputeWritesNothing ==
    [][ ( /\ lastOp.kind = "recompute"
          /\ lastOp'.kind = "recompute"
          /\ lastOp'.u = lastOp.u
          /\ now' = now + 1 )
        => lastOp'.writes = <<>>
      ]_vars

----------------------------------------------------------------------------
(* SpecSeries: fetch_user_daily_timeseries                                 *)

\* The last calendar day of the stored history; the days are 0..MaxDay.
MaxDay == 2
Days == 0..MaxDay

\* What the video statistics can be at a snapshot (cumulative counters, which
\* the platform may also lower).
S100 == [view_count |-> 100, like_count |-> 9, comment_count |-> 4]
S140 == [view_count |-> 140, like_count |-> 7, comment_count |-> 4]
S130 == [view_count |-> 130, like_count |-> 8, comment_count |-> 5]
\* The steadily growing counters of the second video.
GrowingAt(d) == [view_count |-> 20 + 10 * d, like_count |-> 1 + d, comment_count |-> d]

\* The snapshots the first video gets on one day, in the order they are taken.
DayPlans1 == { <<>>, <<S100>>, <<S140>>, <<S130>>, <<S140, S100>> }
\* The histories of the second video: none, one snapshot every day, one
\* snapshot every other day.
Plans2 == { [d \in Days |-> <<>>],
            [d \in Days |-> <<GrowingAt(d)>>],
            [d \in Days |-> IF d % 2 = 0 THEN <<GrowingAt(d)>> ELSE <<>>] }

\* The table youtube_metrics for a history: plan[d] are the snapshots of day d.
TableOf(plan1, plan2) ==
    UNION { { Snapshot("v1", d * TicksPerDay + (i - 1), plan1[d][i]) :
                  i \in 1..Len(plan1[d]) } : d \in Days }
    \cup UNION { { Snapshot("v2", d * TicksPerDay + (i - 1), plan2[d][i]) :
                       i \in 1..Len(plan2[d]) } : d \in Days }

\* The credits of the one user whose series is asked for.
SeriesUser == 1
CreditPlans ==
    { <<>>,
      << [u_id |-> 1, p_id |-> "v1", u_role |-> "Editor"] >>,
      << [u_id |-> 1, p_id |-> "v1", u_role |-> "Editor"],
         [u_id |-> 1, p_id |-> "v2", u_role |-> "Director"] >> }

\* start_iso and end_iso as the analytics page builds them: midnight of the
\* first day, the last instant of the last day.
StartIso(d) == d * TicksPerDay
EndIso(d) == d * TicksPerDay + (TicksPerDay - 1)

\* The baseline query looking back one day only.
BaselineRowsOneDay(ms, pids, start) ==
    { m \in ms : /\ m.p_id \in pids
                 /\ m.fetched_at < start
                 /\ m.fetched_at >= start - TicksPerDay
                 /\ \A o \in ms : (o.p_id = m.p_id /\ o.fetched_at < start)
                                     => o.fetched_at <= m.fetched_at }

\* baseline_rows: per project the latest snapshot before the window.
BaselineRows(ms, pids, start) ==
    { m \in ms : /\ m.p_id \in pids
                 /\ m.fetched_at < start
                 /\ \A o \in ms : (o.p_id = m.p_id /\ o.fetched_at < start)
                                     => o.fetched_at <= m.fetched_at }

\* range_resp: the snapshots of the window, both ends included.
RangeRows(ms, pids, start, end) ==
    { m \in ms : m.p_id \in pids /\ m.fetched_at >= start /\ m.fetched_at <= end }

\* last_per_day: the last snapshot per project and calendar day.
LastPerDay(rows) ==
    { m \in rows : \A o \in rows :
          (o.p_id = m.p_id /\ DayOf(o.fetched_at) = DayOf(m.fetched_at))
              => o.fetched_at <= m.fetched_at }

\* sort_values: the rows of one project in ascending date order.
RECURSIVE SortByDate(_)
SortByDate(rows) ==
    IF rows = {} THEN <<>>
    ELSE LET m == CHOOSE x \in rows : \A y \in rows : x.fetched_at <= y.fetched_at
         IN  <<m>> \o SortByDate(rows \ {m})

\* clip(lower=0)
ClipLower(x) == IF x < 0 THEN 0 ELSE x

\* diff().fillna(0).clip(lower=0) of one column of a sorted group.
DiffClip(g, i, col) == IF i = 1 THEN 0 ELSE ClipLower(g[i][col] - g[i - 1][col])

\* The increment rows of one project.
Increments(rows, pid) ==
    LET g == SortByDate({ m \in LastPerDay(rows) : m.p_id = pid })
    IN  { [p_id |-> pid, date |-> DayOf(g[i].fetched_at),
           view_count_inc    |-> DiffClip(g, i, "view_count"),
           like_count_inc    |-> DiffClip(g, i, "like_count"),
           comment_count_inc |-> DiffClip(g, i, "comment_count")] : i \in 1..Len(g) }

\* The frame fetch_user_daily_timeseries returns: empty, or one row per day
\* of the window.
fetch_user_daily_timeseries(u, ups, ms, start, end) ==
    LET pids     == ProjectIdsOf(ups, u)
        rows     == BaselineRows(ms, pids, start) \cup RangeRows(ms, pids, start, end)
        inc_df   == UNION { Increments(rows, pid) : pid \in pids }
        filtered == { r \in inc_df : r.date >= DayOf(start) }
        dates    == { r.date : r \in filtered }
        agg(d)   == LET day == { r \in filtered : r.date = d }
                    IN  [views    |-> SumCol(day, "view_count_inc"),
                         likes    |-> SumCol(day, "like_count_inc"),
                         comments |-> SumCol(day, "comment_count_inc")]
    IN  IF pids = {} \/ rows = {} \/ dates = {} THEN <<>>
        ELSE [d \in DayOf(start)..DayOf(end) |->
                 IF d \in dates THEN agg(d)
                 ELSE [views |-> 0, likes |-> 0, comments |-> 0]]

InitSeries ==
    /\ now = EndIso(MaxDay)
    /\ projects = <<"v1", "v2">>
    /\ users = <<"ann@x.io">>
    /\ user_metrics = [u \in UserIds |-> NoRow]
    /\ lastOp = [kind |-> "init", ok |-> TRUE, u |-> 0, writes |-> <<>>]
    /\ youtube_metrics \in { TableOf(plan1, plan2) :
                                 plan1 \in [Days -> DayPlans1], plan2 \in Plans2 }
    /\ user_projects \in CreditPlans
    /\ series = NoSeries
    /\ InitSessionIdle
    /\ InitRedirectIdle
    /\ InitLaterIdle

\* The analytics page asks for the days first..last.
FetchSeries(first, last) ==
    /\ first <= last
    /\ series' = [u |-> SeriesUser, start |-> first, end |-> last,
                  out |-> fetch_user_daily_timeseries(SeriesUser, user_projects,
                              youtube_metrics, StartIso(first), EndIso(last))]
    /\ UNCHANGED <<dbVars, sessVars, redirVars, laterVars>>

NextSeries == \E first \in Days, last \in Days : FetchSeries(first, last)

SpecSeries == InitSeries /\ [][NextSeries]_vars

\* What the day d of project p is to contribute to column col: nothing when
\* p has no snapshot on d or none before d, else the day's last value minus
\* the last value of the closest earlier day that has a snapshot, at least 0.
LastOn(p, d) ==
    CHOOSE m \in youtube_metrics :
        /\ m.p_id = p /\ DayOf(m.fetched_at) = d
        /\ \A o \in youtube_metrics :
               (o.p_id = p /\ DayOf(o.fetched_at) = d) => o.fetched_at <= m.fetched_at
HasDay(p, d) == \E m \in youtube_metrics : m.p_id = p /\ DayOf(m.fetched_at) = d
DailyValue(p, d, col) ==
    IF ~HasDay(p, d) \/ ~\E e \in 0..(d - 1) : HasDay(p, e) THEN 0
    ELSE LET prev  == CHOOSE e \in 0..(d - 1) :
                          HasDay(p, e) /\ \A f \in (e + 1)..(d - 1) : ~HasDay(p, f)
             delta == LastOn(p, d)[col] - LastOn(p, prev)[col]
         IN  IF delta > 0 THEN delta ELSE 0

RECURSIVE SumDaily(_, _, _)
SumDaily(ps, d, col) ==
    IF ps = {} THEN 0
    ELSE LET p == CHOOSE x \in ps : TRUE
         IN  DailyValue(p, d, col) + SumDaily(ps \ {p}, d, col)

----------------------------------------------------------------------------
(* SpecSession: one browser session, the authentication gate, the login    *)
(* screen and the OAuth callbacks                                          *)

\* The e-mails the identity backend signs in.
RealUsers == {"Ann@x.io", "bob@x.io"}
\* What the backend's who-am-I (auth.get_user) answers: no user, a user, or
\* an exception.
WhoAnswers == {None, "error", "ann@x.io", "bob@x.io"}
\* What the backend's code exchange answers: a user, a response without a
\* user, a PKCE / expired / invalid error, another error.
ExchangeAnswers == RealUsers \cup {"no_user", "pkce_error", "other_error"}
\* The CSRF token show_settings_page draws (secrets.token_urlsafe(16), 22
\* characters) and the literal the gate looks for.
CsrfToken == "tok_22_urlsafe_chars"
GateLiteral == "instagram_connect"
\* The requests that arrive: a plain page load, a callback with a code and
\* some state, an error callback.
Requests ==
    {NoParams, [code |-> None, state |-> None, error |-> TRUE]}
    \cup { [code |-> "c1", state |-> st, error |-> FALSE] :
               st \in {None, GateLiteral, CsrfToken} }
\* What the outside answers during one script run.  A run that asks the
\* backend to exchange a code asks who-am-I only after a PKCE error and then
\* only for the user it names; a run reaches the photo platform only after a
\* who-am-I answer naming a user.  These combinations cover every run.
Answers ==
    { [who |-> w, xres |-> "other_error", igOk |-> TRUE] : w \in WhoAnswers }
    \cup { [who |-> w, xres |-> "other_error", igOk |-> FALSE] :
               w \in WhoAnswers \ {None, "error"} }
    \cup { [who |-> None, xres |-> x, igOk |-> TRUE] : x \in ExchangeAnswers }
    \cup { [who |-> w, xres |-> "pkce_error", igOk |-> TRUE] :
               w \in WhoAnswers \ {None, "error"} }

\* What a script run is about: the page it renders or the widget pressed.
\* The sidebar radio is on Profile by default; a viewer coming back from the
\* photo platform left from Settings.
PageLoads == {"profile", "settings"}
ContentClicks == {"other", "add_role", "refresh", "logout"}
LoginClicks == {"demo", "password_ann", "password_bob"}
\* The account a password sign-in is for.
PasswordUser(act) == IF act = "password_ann" THEN "Ann@x.io" ELSE "bob@x.io"
Acts == PageLoads \cup ContentClicks \cup LoginClicks

\* The comparison of the gate: current_user.email.lower() != user_email.lower()
WhoMatches(who, user_email) ==
    who \notin {None, "error"} /\ Lower(who) = Lower(user_email)

\* The gate validating also with stored tokens on a hosted deployment left out.
NeedsValidationAnyTokens(ss, local) ==
    /\ ss.user # DemoUser
    /\ ~ss.oauth_just_completed
    /\ ~ss.has_stored_tokens

\* The gate's condition for asking the backend who the viewer is.
NeedsValidation(ss, local) ==
    /\ ss.user # DemoUser
    /\ ~ss.oauth_just_completed
    /\ ~(local /\ ss.has_stored_tokens)

\* The gate's elif: a run that skipped the check because of the flag resets
\* the flag.
KeepOAuthFlag(ss, needs) == ss
ClearOAuthFlag(ss, needs) ==
    IF ~needs /\ ss.oauth_just_completed
    THEN [ss EXCEPT !.oauth_just_completed = FALSE] ELSE ss

\* keys_to_clear of show_login: the keys starting with "user_" or "cached_".
ClearUserKeys(ss) == [ss EXCEPT !.user_refresh_cooldown = FALSE]

\* The outcome of show_login(): the session state, the query parameters and
\* the screen it leaves ("rerun" when it ends in st.rerun()).
LoginResult(ss, qp, scr) == [ss |-> ss, qp |-> qp, screen |-> scr]

show_login(ss, qp, act, xres, who, local) ==
    IF act = "demo"
    THEN LoginResult([(IF ss.user # None THEN ClearUserKeys(ss) ELSE ss)
                         EXCEPT !.user = DemoUser], qp, "rerun")
    ELSE IF qp.code # None \/ qp.error
    THEN IF qp.error THEN LoginResult(ss, qp, "login_callback")
         ELSE IF xres \in RealUsers
         THEN LoginResult(
                 [(IF ss.user # None /\ ss.user # xres THEN ClearUserKeys(ss) ELSE ss)
                     EXCEPT !.user = xres, !.has_stored_tokens = TRUE,
                            !.oauth_just_completed = TRUE],
                 NoParams, "rerun")
         ELSE IF xres = "no_user" THEN LoginResult(ss, qp, "login_callback")
         ELSE IF xres = "pkce_error"
         THEN IF local /\ ss.has_stored_tokens /\ who \notin {None, "error"}
              THEN LoginResult([ss EXCEPT !.user = who, !.oauth_just_completed = TRUE],
                               NoParams, "rerun")
              ELSE LoginResult([ss EXCEPT !.user = None, !.has_stored_tokens = FALSE],
                               NoParams, "login_callback")
         ELSE LoginResult([ss EXCEPT !.user = None], qp, "login_callback")
    ELSE IF act \in {"password_ann", "password_bob"}
    THEN LoginResult([ss EXCEPT !.user = PasswordUser(act)], qp, "rerun")
    ELSE LoginResult(ss, qp, "login_full")

\* Python values of the callback handler: None, a str, a dict with one key,
\* a pair.
PyNone == [kind |-> "none", val |-> ""]
PyStr(x) == [kind |-> "str", val |-> x]
PyDict(key) == [kind |-> "dict", val |-> key]
PyTuple(a, b) == [kind |-> "tuple", items |-> <<a, b>>]
\* not v
PyFalsy(v) == v.kind = "none"
\* x in v: an element of the tuple equal to the str x, or a key of the dict.
PyIn(x, v) ==
    IF v.kind = "tuple" THEN \E i \in DOMAIN v.items : v.items[i] = PyStr(x)
    ELSE v.kind = "dict" /\ v.val = x
\* v[x] for a str x raises TypeError unless v is a dict.
PyHasItem(x, v) == v.kind = "dict" /\ v.val = x

\* exchange_code_for_token and get_long_lived_token return the pair
\* (payload, None) or (None, message).
exchange_code_for_token(igOk) ==
    IF igOk THEN PyTuple(PyDict("access_token"), PyNone)
    ELSE PyTuple(PyNone, PyStr("error"))
get_long_lived_token(igOk) ==
    IF igOk THEN PyTuple(PyDict("access_token"), PyNone)
    ELSE PyTuple(PyNone, PyStr("error"))

\* handle_instagram_oauth_callback: TRUE when it gets as far as storing the
\* token record (and then clears the query parameters and reruns).  igOk
\* says that the platform answers every call successfully.
CallbackStores(igOk) ==
    LET token_data      == exchange_code_for_token(igOk)
        long_token_data == get_long_lived_token(igOk)
    IN  /\ ~(PyFalsy(token_data) \/ ~PyIn("access_token", token_data))
        /\ PyHasItem("access_token", token_data)
        /\ ~PyFalsy(long_token_data)
        /\ PyHasItem("access_token", long_token_data)
        /\ igOk

\* store_instagram_token: upsert on (u_id, platform).
StoreToken(tokens, e) ==
    { t \in tokens : ~(t.user = Lower(e) /\ t.platform = "instagram") }
    \cup { [user |-> Lower(e), platform |-> "instagram", token |-> "long_lived"] }

\* One run of the script credify_app.py in the session: the gate, then the
\* page.  act is the page or widget of the run; ans holds what the outside
\* answers during the run: who is the who-am-I answer, xres the answer of the
\* backend's code exchange, igOk whether the photo platform answers
\* successfully.
ScriptRun(ss, qp, act, ans) ==
    LET local  == is_localhost_env
        who    == ans.who
        xres   == ans.xres
        igOk   == ans.igOk
        is_instagram_oauth == qp.code # None /\ qp.state # None /\ qp.state = GateLiteral
        is_supabase_oauth  == (qp.code # None \/ qp.error) /\ ~is_instagram_oauth
        checked == /\ ~is_supabase_oauth
                   /\ ss.user \notin {None, DemoUser}
                   /\ ~ss.oauth_just_completed
                   /\ ~(is_localhost_env /\ ss.has_stored_tokens)
        run0   == [NoRun EXCEPT
                      !.must_check  = checked,
                      !.who_ok      = checked /\ WhoMatches(who, ss.user),
                      !.had_code    = qp.code # None,
                      !.flag_before = ss.oauth_just_completed,
                      !.authed      = ss.user # None,
                      !.csrf_match  = /\ qp.state # None
                                      /\ qp.state = ss.instagram_oauth_state,
                      !.platform_ok = (qp.code # None) => igOk]
        Login(ss1) ==
            LET r == show_login(ss1, qp, act, xres, who, local)
            IN  [ss |-> r.ss, qp |-> r.qp, screen |-> r.screen, tokens |-> oauth_tokens,
                 run |-> [run0 EXCEPT
                             !.login_code = IF act # "demo" /\ ~qp.error THEN qp.code
                                            ELSE None]]
    IN
    IF is_supabase_oauth THEN Login([ss EXCEPT !.user = None])
    ELSE IF ss.user = None THEN Login(ss)
    ELSE
    LET needs == NeedsValidation(ss, local)
        ok    == WhoMatches(who, ss.user)
    IN
    IF needs /\ ~ok
    THEN \* st.session_state.clear(), sign_out(), show_login(), st.stop()
         [Login(EmptySession) EXCEPT !.run.gate = TRUE, !.run.validated = TRUE]
    ELSE
    LET ss1  == ClearOAuthFlag(ss, needs)
        run2 == [run0 EXCEPT !.ig_exchange = is_instagram_oauth,
                             !.gate = TRUE, !.validated = needs]
    IN
    IF is_instagram_oauth /\ CallbackStores(igOk)
    THEN \* the gate's handle_instagram_oauth_callback stored the token
         [ss |-> ss1, qp |-> NoParams, screen |-> "rerun",
          tokens |-> StoreToken(oauth_tokens, ss.user), run |-> run2]
    ELSE
    LET run3 == [run2 EXCEPT !.content = TRUE]
    IN
    CASE act = "logout" ->
           \* logout_button() in the sidebar: clear() and st.rerun() before the page
           [ss |-> EmptySession, qp |-> qp, screen |-> "rerun",
            tokens |-> oauth_tokens, run |-> run2]
      [] act = "profile" ->
           [ss |-> [ss1 EXCEPT !.live_metrics =
                        IF ss1.live_metrics = None THEN ss.user ELSE ss1.live_metrics],
            qp |-> qp, screen |-> "content", tokens |-> oauth_tokens, run |-> run3]
      [] act = "refresh" ->
           [ss |-> [ss1 EXCEPT !.live_metrics = ss.user,
                               !.user_refresh_cooldown = TRUE],
            qp |-> qp, screen |-> "rerun", tokens |-> oauth_tokens, run |-> run3]
      [] act = "add_role" ->
           [ss |-> [ss1 EXCEPT !.selected_roles =
                        IF ss1.selected_roles = None THEN ss.user ELSE ss1.selected_roles],
            qp |-> qp, screen |-> "content", tokens |-> oauth_tokens, run |-> run3]
      [] act = "settings" ->
           IF qp.code # None /\ qp.state # None
           THEN IF ss1.instagram_oauth_state # None
                   /\ qp.state = ss1.instagram_oauth_state
                THEN \* state validated: pop it, run the callback handler
                     IF CallbackStores(igOk)
                     THEN [ss |-> [ss1 EXCEPT !.instagram_oauth_state = None],
                           qp |-> NoParams, screen |-> "rerun",
                           tokens |-> StoreToken(oauth_tokens, ss.user),
                           run |-> [run3 EXCEPT !.ig_exchange = TRUE]]
                     ELSE [ss |-> [ss1 EXCEPT !.instagram_oauth_state = CsrfToken],
                           qp |-> qp, screen |-> "content", tokens |-> oauth_tokens,
                           run |-> [run3 EXCEPT !.ig_exchange = TRUE]]
                ELSE \* invalid state: error, pop, clear the parameters, stop
                     [ss |-> [ss1 EXCEPT !.instagram_oauth_state = None],
                      qp |-> NoParams, screen |-> "content", tokens |-> oauth_tokens,
                      run |-> run3]
           ELSE [ss |-> [ss1 EXCEPT !.instagram_oauth_state = CsrfToken],
                 qp |-> qp, screen |-> "content", tokens |-> oauth_tokens, run |-> run3]
      [] OTHER ->
           [ss |-> ss1, qp |-> qp, screen |-> "content",
            tokens |-> oauth_tokens, run |-> run3]

\* The widgets a run can be about are those the last run put on the page.
ActAllowed(act) ==
    /\ act \in ContentClicks \ {"other"} => screen = "content"
    /\ act = "demo" => screen \in {"login_full", "login_callback"}
    /\ act \in {"password_ann", "password_bob"} => screen = "login_full"
    /\ screen \in {"login_full", "login_callback"} => act \in LoginClicks \cup {"other"}

Apply(r) ==
    /\ session_state' = r.ss
    /\ query_params' = r.qp
    /\ screen' = r.screen
    /\ oauth_tokens' = r.tokens
    /\ lastRun' = [r.run EXCEPT !.still_in = r.run.authed /\ r.ss.user = session_state.user]
    /\ UNCHANGED <<is_localhost_env, dbVars, series, redirVars, laterVars>>

\* The browser of the session loads the application with the parameters req
\* (the first visit, or a redirect coming back from a provider).
Arrive(req, page, ans) ==
    /\ req \in Requests
    /\ \E r \in {ScriptRun(session_state, req, page, ans)} : Apply(r)

\* A rerun of the script: a widget event, a navigation, or st.rerun().
Rerun(act, ans) ==
    /\ screen # "none"
    /\ ActAllowed(act)
    /\ \E r \in {ScriptRun(session_state, query_params, act, ans)} : Apply(r)

InitSession ==
    /\ InitDb
    /\ series = NoSeries
    /\ session_state = EmptySession
    /\ query_params = NoParams
    /\ screen = "none"
    /\ is_localhost_env \in BOOLEAN
    /\ oauth_tokens = {}
    /\ lastRun = NoRun
    /\ InitRedirectIdle
    /\ InitLaterIdle

NextSession ==
    \/ \E req \in Requests, page \in PageLoads, ans \in Answers :
          Arrive(req, page, ans)
    \/ \E act \in Acts, ans \in Answers : Rerun(act, ans)

SpecSession == InitSession /\ [][NextSession]_vars

----------------------------------------------------------------------------
(* Properties of the session (SpecSession)                                 *)

\* The identity a cached value was written for is the installed one.
OwnedByViewer(owner) == owner = None \/ Lower(owner) = Lower(session_state.user)

\* C6: whenever an identity is installed, the cached live metrics and the
\* claim draft of the session are absent or were written for that identity:
\* nothing written for a previously installed identity survives a switch.
C6_NoKeyOfPreviousIdentity ==
    session_state.user # None
        => /\ OwnedByViewer(session_state.live_metrics)
           /\ OwnedByViewer(session_state.selected_roles)

C8_CallbackStoresToken ==
    (lastRun.authed /\ lastRun.had_code /\ lastRun.csrf_match /\ lastRun.platform_ok)
        => /\ lastRun.still_in
           /\ \E t \in oauth_tokens :
                  t.user = Lower(session_state.user) /\ t.platform = "instagram"

\* C10: in a run that began with a cached non-demo identity, the
\* just-completed flag false and not (local with stored tokens), content is
\* rendered only if who-am-I named the cached e-mail up to case; otherwise
\* no content is rendered, clear() leaves no key of the session behind and
\* the login screen runs (on a request without a code it leaves the session
\* state empty and shows the sign-in forms).
C10_ContentOnlyWhenConfirmed ==
    lastRun.must_check
        => /\ lastRun.content => lastRun.who_ok
           /\ ~lastRun.who_ok
                => /\ ~lastRun.content
                   /\ screen # "content"
                   /\ session_state.live_metrics = None
                   /\ session_state.selected_roles = None
                   /\ ~session_state.user_refresh_cooldown
                   /\ session_state.instagram_oauth_state = None
                   /\ ~lastRun.had_code
                        => session_state = EmptySession /\ screen = "login_full"

\* C10 witness: a signed-in non-demo viewer whose who-am-I check failed and
\* who is back at the sign-in forms with an empty session.
C10_CheckFailedSeen ==
    /\ lastRun.must_check /\ ~lastRun.who_ok /\ lastRun.authed
    /\ session_state = EmptySession
    /\ screen = "login_full"


\* C22: the just-completed-OAuth flag suppresses the validity check for one
\* render: a run that reaches the gate with the flag set skips the who-am-I
\* check and leaves the flag false, and a run that reaches the gate with the
\* flag clear, for a non-demo viewer on a hosted environment, asks who-am-I.
C22_FlagSkipsOneRender ==
    /\ lastRun.gate /\ lastRun.flag_before
          => ~lastRun.validated /\ ~session_state.oauth_just_completed
    /\ lastRun.gate /\ ~lastRun.flag_before /\ lastRun.must_check /\ ~is_localhost_env
          => lastRun.validated

\* A hosted session signed in by a code exchange (its tokens are stored) was
\* validated in a later render: the flag had been reset by the render before.
C22_ValidatedAfterOAuth ==
    /\ ~is_localhost_env
    /\ session_state.has_stored_tokens
    /\ lastRun.gate /\ lastRun.validated /\ lastRun.who_ok /\ ~lastRun.flag_before
    /\ lastRun.content

\* C29: an authorization code on the sign-in callback is submitted for
\* exchange in one render only: after a run in which show_login submitted the
\* code, whatever the exchange answered, the code query parameter is cleared.
C29_CodeClearedAfterExchange ==
    lastRun.login_code # None => query_params.code = None
----------------------------------------------------------------------------
(* SpecRedirect: get_redirect_url                                          *)

\* How many of the configuration sources (secrets OAUTH_REDIRECT_URL and
\* PRODUCTION_BASE_URL, then the environment's OAUTH_REDIRECT_URL,
\* PRODUCTION_BASE_URL, SITE_URL), taken in the code's order, the model
\* fills.
MaxCandidates == 2

\* The port get_redirect_url falls back to.
DefaultPort == 8501

CANONICAL_PRODUCTION_URL ==
    [scheme |-> "https", host |-> "credifyapp.streamlit.app", port |-> 0, path |-> <<>>]
ALLOWED_PRODUCTION_HOSTS == {"credifyapp.streamlit.app"}
LOCALHOST_HOSTS == {"localhost", "127.0.0.1"}
\* host.endswith("share.streamlit.io") for the hosts of the model.
EndsWithProxyDomain(host) == host \in {"share.streamlit.io", "team.share.streamlit.io"}

\* A configured value: scheme "" when the text has no "://", port 0 when it
\* names none, path as its segments, slash when the text ends in "/".
Url(scheme, host, port, path, slash) ==
    [kind |-> "url", scheme |-> scheme, host |-> host, port |-> port, path |-> path,
     slash |-> slash]
\* A value of blanks only.
Blank == [Unset EXCEPT !.kind = "blank"]
Candidates ==
    { Unset, Blank,
      Url("", "localhost", 8502, <<>>, FALSE),
      Url("https", "127.0.0.1", 0, <<>>, TRUE),
      Url("http", "localhost", 3000, <<"cb">>, TRUE),
      Url("https", "credifyapp.streamlit.app", 0, <<>>, TRUE),
      Url("https", "team.share.streamlit.io", 0, <<"user", "app">>, FALSE),
      Url("", "evil.example.com", 0, <<>>, FALSE),
      Url("https", "evil.example.com", 8443, <<"cb">>, TRUE),
      Url("ftp", "files.example.com", 0, <<>>, FALSE),
      Url("https", "", 0, <<>>, FALSE) }

\* not candidate, or not value after strip()
IsEmpty(c) == c.kind \in {"unset", "blank"}

\* _normalize_base_url without the host checks.
NormalizeAnyHost(c) ==
    IF IsEmpty(c) \/ c.host = "" THEN NoUrl
    ELSE [scheme |-> IF c.scheme = "" THEN "https" ELSE c.scheme,
          host |-> c.host, port |-> c.port, path |-> <<>>]

\* _normalize_base_url: the loopback hosts become http://localhost[:port],
\* the production host and the proxy domain the canonical URL, any other
\* host None.
normalize_base_url(c) ==
    IF IsEmpty(c) \/ c.host = "" THEN NoUrl
    ELSE IF c.host \in LOCALHOST_HOSTS
    THEN [scheme |-> "http", host |-> "localhost", port |-> c.port, path |-> <<>>]
    ELSE IF c.host \in ALLOWED_PRODUCTION_HOSTS THEN CANONICAL_PRODUCTION_URL
    ELSE IF EndsWithProxyDomain(c.host) THEN CANONICAL_PRODUCTION_URL
    ELSE NoUrl

\* _get_production_base_url: the first candidate that normalizes, else the
\* canonical URL.
RECURSIVE get_production_base_url(_)
get_production_base_url(cands) ==
    IF cands = <<>> THEN CANONICAL_PRODUCTION_URL
    ELSE IF normalize_base_url(Head(cands)) # NoUrl THEN normalize_base_url(Head(cands))
    ELSE get_production_base_url(Tail(cands))

\* One candidate of _get_local_override_base_url: None unless it has an http
\* or https scheme (http when the text names none) and a host; then
\* scheme://host[:port][path], the path without trailing slashes.
LocalOverrideOf(c) ==
    LET scheme == IF c.scheme = "" THEN "http" ELSE c.scheme
    IN  IF IsEmpty(c) \/ scheme \notin {"http", "https"} \/ c.host = "" THEN NoUrl
        ELSE [scheme |-> scheme, host |-> c.host, port |-> c.port, path |-> c.path]

\* _get_local_override_base_url: the first candidate that gives a base.
RECURSIVE get_local_override_base_url(_)
get_local_override_base_url(cands) ==
    IF cands = <<>> THEN NoUrl
    ELSE IF LocalOverrideOf(Head(cands)) # NoUrl THEN LocalOverrideOf(Head(cands))
    ELSE get_local_override_base_url(Tail(cands))

\* The base get_redirect_url resolves for the environment.
BaseUrl(cfg) ==
    IF cfg.is_local
    THEN IF get_local_override_base_url(cfg.candidates) # NoUrl
         THEN get_local_override_base_url(cfg.candidates)
         ELSE [scheme |-> "http", host |-> "localhost",
               port |-> IF cfg.server_port # 0 THEN cfg.server_port ELSE DefaultPort,
               path |-> <<>>]
    ELSE get_production_base_url(cfg.candidates)

\* get_redirect_url(path): the base, with the path appended when one is given.
get_redirect_url(cfg, path) ==
    LET base_url == BaseUrl(cfg)
    IN  IF path = <<>> THEN base_url
        ELSE [base_url EXCEPT !.path = base_url.path \o path]

CandidateLists == [1..MaxCandidates -> Candidates]

InitRedirect ==
    /\ InitDb
    /\ series = NoSeries
    /\ InitSessionIdle
    /\ redirect_cfg \in [is_local : BOOLEAN, candidates : CandidateLists,
                         server_port : {0, 8502}]
    /\ redirect_out = [called |-> FALSE, path |-> <<>>, url |-> NoUrl]
    /\ InitLaterIdle

\* A call get_redirect_url(path): path is None or the callback path.
ResolveRedirect(path) ==
    /\ redirect_out' = [called |-> TRUE, path |-> path,
                        url |-> get_redirect_url(redirect_cfg, path)]
    /\ UNCHANGED <<redirect_cfg, dbVars, series, sessVars, laterVars>>

NextRedirect == \E path \in {<<>>, <<"instagram_callback">>} : ResolveRedirect(path)

SpecRedirect == InitRedirect /\ [][NextRedirect]_vars

\* The base of the returned URL: the URL without the appended path.
ReturnedBase ==
    [redirect_out.url EXCEPT
        !.path = SubSeq(redirect_out.url.path, 1,
                        Len(redirect_out.url.path) - Len(redirect_out.path))]

\* The canonical URL, or http://localhost with an optional port.
CanonicalOrLocalhost(u) ==
    \/ u = CANONICAL_PRODUCTION_URL
    \/ u.scheme = "http" /\ u.host = "localhost" /\ u.path = <<>>

\* The first configured value a local environment accepts as override.
UsableLocally(c) ==
    c.kind = "url" /\ c.host # "" /\ c.scheme \in {"", "http", "https"}
FirstUsable(cands) ==
    cands[CHOOSE i \in 1..Len(cands) :
              UsableLocally(cands[i]) /\ \A j \in 1..(i - 1) : ~UsableLocally(cands[j])]

\* C9 as stated: in every environment the returned base is the canonical
\* production URL or http://localhost with an optional port.
C9_AlwaysCanonicalOrLocalhost ==
    redirect_out.called => CanonicalOrLocalhost(ReturnedBase)

\* C9 amended: in a hosted environment the returned base is the canonical
\* production URL or http://localhost with an optional port (the first
\* candidate with a loopback, production or proxy-domain host decides, any
\* other host is skipped); in a local environment it is the first configured
\* value with a host and an http or https scheme, returned with its own host,
\* port and path, and http://localhost:<port> when there is none.
C9_HostedCanonicalLocalOverride ==
    redirect_out.called =>
        IF ~redirect_cfg.is_local
        THEN /\ CanonicalOrLocalhost(ReturnedBase)
             /\ ReturnedBase.host \in {"localhost", "credifyapp.streamlit.app"}
        ELSE IF \E i \in 1..Len(redirect_cfg.candidates) :
                    UsableLocally(redirect_cfg.candidates[i])
        THEN LET c == FirstUsable(redirect_cfg.candidates)
             IN  /\ ReturnedBase.host = c.host
                 /\ ReturnedBase.port = c.port
                 /\ ReturnedBase.path = c.path
                 /\ ReturnedBase.scheme = IF c.scheme = "" THEN "http" ELSE c.scheme
        ELSE /\ ReturnedBase.scheme = "http" /\ ReturnedBase.host = "localhost"
             /\ ReturnedBase.path = <<>>
             /\ ReturnedBase.port \in {redirect_cfg.server_port, DefaultPort}
             /\ ReturnedBase.port # 0

\* C9 witness: a local environment with a configured value of another host,
\* which get_redirect_url returned.
C9_LocalOverrideSeen ==
    /\ redirect_out.called
    /\ redirect_cfg.is_local
    /\ redirect_out.url.host = "evil.example.com"

----------------------------------------------------------------------------
(* SpecClients: the backend client of auth.py and the browser sessions of  *)
(* one server process                                                      *)

\* create_client calls the model allows.
MaxClients == 3
\* The accounts that sign in with a password.
Accounts == {"ann@x.io", "bob@x.io"}

\* create_client(SUPABASE_URL, SUPABASE_KEY): a new client, signed in as
\* nobody; a client is named by its position in clients.
create_client(cs) == Append(cs, None)

\* "from auth import ..." at the top of credify_app.py, in a script run of
\* session s.  The body of auth.py runs when the module is not yet in
\* sys.modules, that is once per server process: it creates a client when
\* the running session has none cached and binds the module global supabase
\* to the cached client.  Every later import returns the cached module.
ImportAuth(am, cs, ss, s) ==
    IF am.imported
    THEN [am |-> am, cs |-> cs, ss |-> ss]
    ELSE LET missing == ss[s].supabase_client = 0
             cs1 == IF missing THEN create_client(cs) ELSE cs
             ss1 == IF missing THEN [ss EXCEPT ![s].supabase_client = Len(cs1)] ELSE ss
         IN  [am |-> [imported |-> TRUE, supabase |-> ss1[s].supabase_client],
              cs |-> cs1, ss |-> ss1]

\* st.session_state.clear()
ClearedSession == [supabase_client |-> 0, user |-> None]

\* A backend call of session s on client c; cached is the client in the
\* session's state when the call is made.
Call(s, op, c, ss, who) ==
    [s |-> s, op |-> op, client |-> c, cached |-> ss[s].supabase_client, who |-> who]

\* The password form of show_login, submitted by session s for account e.
SignIn(s, e) ==
    /\ sessions[s].user = None
    /\ LET i == ImportAuth(auth_module, clients, sessions, s)
           c == i.am.supabase
       IN  /\ auth_module' = i.am
           /\ clients' = [i.cs EXCEPT ![c] = e]
           /\ sessions' = [i.ss EXCEPT ![s].user = e]
           /\ lastCall' = Call(s, "sign_in_with_password", c, i.ss, e)
    /\ UNCHANGED otherThanClients

\* A script run of a signed-in session s: the gate asks the client who is
\* signed in; on another answer than the cached identity it clears the
\* session state and signs the client out.
Validate(s) ==
    /\ sessions[s].user # None
    /\ LET i == ImportAuth(auth_module, clients, sessions, s)
           c == i.am.supabase
           who == i.cs[c]
       IN  /\ auth_module' = i.am
           /\ lastCall' = Call(s, "get_user", c, i.ss, who)
           /\ IF who = sessions[s].user
              THEN /\ clients' = i.cs
                   /\ sessions' = i.ss
              ELSE /\ clients' = [i.cs EXCEPT ![c] = None]
                   /\ sessions' = [i.ss EXCEPT ![s] = ClearedSession]
    /\ UNCHANGED otherThanClients

\* logout_button pressed in session s: sign_out on the client, then
\* st.session_state.clear().  A run whose gate check fails before the button
\* is reached ends in the same state.
Logout(s) ==
    /\ sessions[s].user # None
    /\ LET i == ImportAuth(auth_module, clients, sessions, s)
           c == i.am.supabase
       IN  /\ auth_module' = i.am
           /\ clients' = [i.cs EXCEPT ![c] = None]
           /\ lastCall' = Call(s, "sign_out", c, i.ss, None)
           /\ sessions' = [i.ss EXCEPT ![s] = ClearedSession]
    /\ UNCHANGED otherThanClients

\* The identity-backend callback of session s whose code exchange fails with
\* a PKCE or expired-code error: show_login deletes the cached client and
\* stores a new one in the session state.
PkceError(s) ==
    /\ sessions[s].user = None
    /\ LET i == ImportAuth(auth_module, clients, sessions, s)
           c == i.am.supabase
           cs1 == create_client(i.cs)
       IN  /\ Len(i.cs) < MaxClients
           /\ auth_module' = i.am
           /\ clients' = cs1
           /\ lastCall' = Call(s, "exchange_code_for_session", c, i.ss, None)
           /\ sessions' = [i.ss EXCEPT ![s].supabase_client = Len(cs1)]
    /\ UNCHANGED otherThanClients

InitClients == IdleOtherThanClients /\ InitClientsIdle

NextClients ==
    \/ \E s \in Sessions, e \in Accounts : SignIn(s, e)
    \/ \E s \in Sessions : Validate(s)
    \/ \E s \in Sessions : Logout(s)
    \/ \E s \in Sessions : PkceError(s)

SpecClients == InitClients /\ [][NextClients]_vars

----------------------------------------------------------------------------
(* Properties of the backend client (SpecClients)                          *)

\* C11: every backend call that auth.py issues for a browser session uses
\* the client cached in that session's state (supabase_client), so that no
\* two sessions share a client and the client stored by the PKCE-error path
\* is the one the next sign-in uses.
C11_CallUsesSessionClient ==
    lastCall.s # 0 => lastCall.client = lastCall.cached

----------------------------------------------------------------------------
(* SpecExtract: extract_video_id and fetch_youtube_data                    *)

\* The longest candidate given to fetch_youtube_data.
MaxLen == 12
\* The length of a video identifier.
IdLength == 11

\* Runs of identifier characters that follow the recognised part of a link:
\* two identifiers, a run one character longer, a run one character shorter.
Runs == { VideoRun("v1"), VideoRun("v2"), IdRun("v1x", 12, "v1"), IdRun("tenchars", 10, "") }
EscapedShortUrl(run) ==
    <<Lit("https://"), Lit("youtu"), Lit("\\"), Lit("."), Lit("be/"), run>>
WatchUrlWithParams(run) ==
    <<Lit("https://www.youtube.com/"), Lit("watch?"), Lit("feature=share&"), Lit("v="), run>>
Links ==
    UNION { { WatchUrl(r), ShortUrl(r), EmbedUrl(r), ShortsPageUrl(r),
              EscapedShortUrl(r), WatchUrlWithParams(r) } : r \in Runs }
    \cup { <<Lit("https://example.com/")>>, <<>> }

\* Characters of a candidate, by name: ASCII letters and a digit, hyphen,
\* underscore, a non-ASCII letter, a non-ASCII digit, a blank, a line feed,
\* a punctuation mark.
AsciiAlnum == {"a", "Z", "7"}
PatternChars == AsciiAlnum \cup {"-", "_"}
UnicodeAlnum == AsciiAlnum \cup {"e_acute", "arabic_3"}
Chars == PatternChars \cup UnicodeAlnum \cup {" ", "line_feed", "!"}
\* A candidate of n characters base with the i-th one replaced by c.
CandidateOf(n, base, i, c) == [j \in 1..n |-> IF j = i THEN c ELSE base]
CandidateInputs ==
    { CandidateOf(n, base, i, c) :
        n \in 0..MaxLen, base \in {"a", "-"}, i \in 1..MaxLen, c \in Chars }

\* str.replace(ch, "")
Replace(str, ch) == SelectSeq(str, LAMBDA c : c # ch)
\* str.isalnum(): at least one character, and every character is a letter
\* or a digit of any script.
isalnum(str) == Len(str) > 0 /\ \A j \in 1..Len(str) : str[j] \in UnicodeAlnum

\* What the video platform answers to the outbound request.
PlatformAnswers == {"items", "not_ok", "bad_json", "no_items"}

\* fetch_youtube_data(video_id): requested says that requests.get was
\* called, data that a dictionary was returned.
fetch_youtube_data(video_id, answer) ==
    IF video_id = <<>> \/ Len(video_id) # IdLength
    THEN [called |-> TRUE, requested |-> FALSE, data |-> FALSE]
    ELSE IF ~isalnum(Replace(Replace(video_id, "-"), "_"))
    THEN [called |-> TRUE, requested |-> FALSE, data |-> FALSE]
    ELSE [called |-> TRUE, requested |-> TRUE, data |-> answer = "items"]

InitExtract ==
    /\ IdleOtherThanExtract
    /\ \/ link \in Links /\ candidate = <<>>
       \/ link = <<>> /\ candidate \in CandidateInputs
    /\ extract_out = NoExtract
    /\ fetch_out = NoFetch

ExtractVideoId ==
    /\ extract_out' = [called |-> TRUE, id |-> extract_video_id(link)]
    /\ UNCHANGED <<link, candidate, fetch_out, otherThanExtract>>

FetchYoutubeData(answer) ==
    /\ fetch_out' = fetch_youtube_data(candidate, answer)
    /\ UNCHANGED <<link, candidate, extract_out, otherThanExtract>>

NextExtract ==
    \/ ExtractVideoId
    \/ \E answer \in PlatformAnswers : FetchYoutubeData(answer)

SpecExtract == InitExtract /\ [][NextExtract]_vars

----------------------------------------------------------------------------
(* Properties of extract_video_id and fetch_youtube_data (SpecExtract)     *)

\* C12: extract_video_id returns the 11-character identifier of a watch URL
\* (watch?v=<id>) and of a short link (youtu.be/<id>), and no identifier for
\* a URL that has neither a v parameter nor a recognised path.
C12_ExtractsWatchAndShortLinks ==
    extract_out.called =>
        /\ \A id \in Videos :
              link \in {WatchUrl(VideoRun(id)), ShortUrl(VideoRun(id))}
                  => extract_out.id = id
        /\ (\E r \in Runs : link = ShortsPageUrl(r)) \/ link = <<Lit("https://example.com/")>>
              => extract_out.id = NoId

\* C13: fetch_youtube_data issues the outbound request exactly for the
\* candidates of 11 characters that are all letters A-Z a-z, digits, hyphen
\* or underscore; for every other candidate it returns absent without a
\* request.
MatchesIdPattern(str) ==
    Len(str) = IdLength /\ \A j \in 1..Len(str) : str[j] \in PatternChars
C13_RequestIffPattern ==
    fetch_out.called =>
        /\ fetch_out.requested <=> MatchesIdPattern(candidate)
        /\ ~fetch_out.requested => ~fetch_out.data

----------------------------------------------------------------------------
(* SpecSearch: search_users                                                *)

\* Rows of the users table.
MaxUsers == 4
\* .limit(20) and users[:20], scaled to the size of the table.
SearchLimit == 2

\* Text is a sequence of characters.
LowerChar(c) ==
    CASE c = "M" -> "m" [] c = "A" -> "a" [] c = "B" -> "b" [] OTHER -> c
\* query.strip()
RECURSIVE StripLeft(_)
StripLeft(q) == IF q # <<>> /\ Head(q) = " " THEN StripLeft(Tail(q)) ELSE q
RECURSIVE StripRight(_)
StripRight(q) ==
    IF q # <<>> /\ q[Len(q)] = " " THEN StripRight(SubSeq(q, 1, Len(q) - 1)) ELSE q
Strip(q) == StripRight(StripLeft(q))
\* column ILIKE '%q%': q occurs in text, letter case ignored.
ILike(text, q) ==
    \E off \in 0..(Len(text) - Len(q)) :
        \A j \in 1..Len(q) : LowerChar(text[off + j]) = LowerChar(q[j])

RowKinds ==
    { [u_name |-> <<"M", "a">>, u_email |-> <<"b", "@">>],
      [u_name |-> <<"B">>,      u_email |-> <<"m", "a", "@">>] }
Tables == [1..MaxUsers -> RowKinds]
Queries == { <<"m">>, <<"M">>, <<"m", "a">>, <<"a", " ">>, <<" ">>, <<>> }

\* The answers the backend may give to a select with .limit(k) and no
\* ordering: any k of the matching rows (all of them when there are fewer),
\* in any order.
LimitResults(matches, k) ==
    LET n == IF Cardinality(matches) < k THEN Cardinality(matches) ELSE k
    IN  { r \in [1..n -> matches] : \A i, j \in 1..n : r[i] = r[j] => i = j }

\* The ids that a filter on the column col selects.
Matching(table, col, q, current_u_id) ==
    { u \in 1..Len(table) : ILike(table[u][col], q) /\ u # current_u_id }

\* The loop that combines the two answers, keeping the first row of each id.
RECURSIVE Dedup(_, _)
Dedup(rows, seen_ids) ==
    IF rows = <<>> THEN <<>>
    ELSE IF Head(rows) \in seen_ids THEN Dedup(Tail(rows), seen_ids)
    ELSE <<Head(rows)>> \o Dedup(Tail(rows), seen_ids \cup {Head(rows)})

\* search_users(supabase, query, current_u_id), given the answers of the two
\* selects; the result is the list of u_id.
search_users(query, name_results, email_results) ==
    IF query = <<>> \/ Len(Strip(query)) < 1 THEN <<>>
    ELSE LET users_ == Dedup(name_results \o email_results, {})
         IN  SubSeq(users_, 1, IF Len(users_) < SearchLimit THEN Len(users_) ELSE SearchLimit)

InitSearch ==
    /\ IdleOtherThanSearch
    /\ user_table \in Tables
    /\ viewer_id \in 1..MaxUsers
    /\ search_last = NoSearch
    /\ search_prev = NoSearch

SearchUsers(query) ==
    /\ \E name_results \in LimitResults(Matching(user_table, "u_name", Strip(query), viewer_id), SearchLimit),
          email_results \in LimitResults(Matching(user_table, "u_email", Strip(query), viewer_id), SearchLimit) :
          search_last' = [called |-> TRUE, query |-> query,
                          result |-> search_users(query, name_results, email_results)]
    /\ search_prev' = search_last
    /\ UNCHANGED <<user_table, viewer_id, otherThanSearch>>

NextSearch == \E query \in Queries : SearchUsers(query)

SpecSearch == InitSearch /\ [][NextSearch]_vars

----------------------------------------------------------------------------
(* Properties of search_users (SpecSearch)                                 *)

SameButCase(q1, q2) ==
    /\ q1 # q2 /\ Len(q1) = Len(q2)
    /\ \A j \in 1..Len(q1) : LowerChar(q1[j]) = LowerChar(q2[j])

\* The result never holds the viewer, holds no identifier twice and has at
\* most SearchLimit entries.
SearchResultWellFormed ==
    search_last.called =>
        LET r == search_last.result
        IN  /\ \A i \in 1..Len(r) : r[i] # viewer_id
            /\ \A i, j \in 1..Len(r) : r[i] = r[j] => i = j
            /\ Len(r) <= SearchLimit

\* C14: for every users table, viewer and non-empty query the result of
\* search_users never holds the viewer, holds no identifier twice and has at
\* most 20 entries, and two queries that differ only in letter case return
\* the same set of users.
C14_SearchExcludesViewerCaseInsensitive ==
    /\ SearchResultWellFormed
    /\ search_last.called /\ search_prev.called
       /\ SameButCase(search_prev.query, search_last.query)
          => Range(search_prev.result) = Range(search_last.result)

----------------------------------------------------------------------------
(* SpecJob: the scheduled ingestion job                                    *)

\* Runs of the job, and the last calendar day.
MaxRuns == 3
MaxJobDay == 1

\* YOUTUBE_VIDEO_IDS after the split: unset, two videos, one video twice.
ConfiguredLists == { <<>>, <<"v1", "v2">>, <<"v1", "v1">> }
\* [...] or ["3zKwIqxLTd4"]
video_ids_of(env) == IF env = <<>> THEN <<"3zKwIqxLTd4">> ELSE env

\* What the outside answers while one video is processed: the video
\* platform (items, no items, a non-OK response), the same-day select (ok,
\* or failed: an exception or a non-OK answer), the insert (ok or rejected).
AnswerCases ==
    { [yt |-> "not_ok", check |-> "ok", insert |-> "ok"],
      [yt |-> "no_items", check |-> "ok", insert |-> "ok"] }
    \cup [yt : {"items"}, check : {"ok", "failed"}, insert : {"ok", "rejected"}]

\* A snapshot row: the video, the day of fetched_at, who wrote it (the job
\* or the claim form), and for the job the outcome of its same-day select.
JobRow(vid, day, by, check) == [p_id |-> vid, day |-> day, by |-> by, check |-> check]

\* The same-day select with a mutation: it never finds a row.
ExistsTodayNever(rows, vid, today) == FALSE
\* p_id=eq.<vid>&fetched_at=gte.<day start>&limit=1 returns a row.
ExistsToday(rows, vid, today) ==
    \E k \in 1..Len(rows) : rows[k].p_id = vid /\ rows[k].day >= today

\* The for loop of lambda_handler from position i on.  The log has one entry
\* per configured video: what happened, and whether its same-day select
\* failed.
Entry(vid, outcome, check) == [p_id |-> vid, outcome |-> outcome, check |-> check]
RECURSIVE RunLoop(_, _, _, _, _)
RunLoop(video_ids, i, rows, today, answers) ==
    IF i > Len(video_ids) THEN [rows |-> rows, log |-> <<>>, raised |-> FALSE]
    ELSE LET vid == video_ids[i]
             a   == answers[i]
             skip(outcome) ==
                 LET rest == RunLoop(video_ids, i + 1, rows, today, answers)
                 IN  [rest EXCEPT !.log = <<Entry(vid, outcome, "none")>> \o rest.log]
         IN  IF a.yt = "not_ok"
             THEN \* raise_for_status() raises out of the handler
                  [rows |-> rows, raised |-> TRUE,
                   log |-> <<Entry(vid, "raised", "none")>> \o
                           [k \in 1..(Len(video_ids) - i) |->
                               Entry(video_ids[i + k], "not_reached", "none")]]
             ELSE IF a.yt = "no_items" THEN skip("no_data")
             ELSE IF a.check = "ok" /\ ExistsToday(rows, vid, today)
             THEN LET rest == RunLoop(video_ids, i + 1, rows, today, answers)
                  IN  [rest EXCEPT !.log = <<Entry(vid, "skipped", "ok")>> \o rest.log]
             ELSE LET rows1 == IF a.insert = "ok"
                               THEN Append(rows, JobRow(vid, today, "job", a.check))
                               ELSE rows
                      rest == RunLoop(video_ids, i + 1, rows1, today, answers)
                  IN  [rest EXCEPT !.log =
                          <<Entry(vid, IF a.insert = "ok" THEN "inserted" ELSE "rejected",
                                  a.check)>> \o rest.log]

\* lambda_handler(event, context)
lambda_handler(env, rows, today, answers) ==
    LET video_ids == video_ids_of(env)
        r == RunLoop(video_ids, 1, rows, today, answers)
    IN  [rows |-> r.rows,
         last |-> [ran |-> TRUE, returned |-> ~r.raised,
                   count |-> IF r.raised THEN 0 ELSE Len(video_ids), log |-> r.log]]

InitJob ==
    /\ IdleOtherThanJob
    /\ job_env \in ConfiguredLists
    /\ job_rows \in { <<>>, <<JobRow("v1", 0, "app", "none")>> }
    /\ job_day = 0
    /\ job_runs = 0
    /\ job_last = NoJobRun

\* One scheduled run.
RunJob(answers) ==
    /\ job_runs < MaxRuns
    /\ job_runs' = job_runs + 1
    /\ LET r == lambda_handler(job_env, job_rows, job_day, answers)
       IN  job_rows' = r.rows /\ job_last' = r.last
    /\ UNCHANGED <<job_env, job_day, otherThanJob>>

\* Midnight UTC.
NextDay ==
    /\ job_day < MaxJobDay
    /\ job_day' = job_day + 1
    /\ UNCHANGED <<job_env, job_rows, job_runs, job_last, otherThanJob>>

NextJob ==
    \/ \E answers \in [1..2 -> AnswerCases] : RunJob(answers)
    \/ NextDay

SpecJob == InitJob /\ [][NextJob]_vars

----------------------------------------------------------------------------
(* Properties of the ingestion job (SpecJob)                               *)

\* C15: a failure for one video (no items, a non-OK response of the video
\* platform, a rejected insert) never keeps the remaining configured videos
\* from being processed, and the handler always returns the success summary
\* with the number of configured videos.
C15_EveryVideoProcessedAndSummary ==
    job_last.ran =>
        /\ job_last.returned
        /\ job_last.count = Len(video_ids_of(job_env))
        /\ \A k \in 1..Len(job_last.log) : job_last.log[k].outcome # "not_reached"

\* C16: within one calendar day the job inserts nothing for a video that
\* already has a snapshot of that day when its same-day select succeeds, so
\* that a day whose selects all succeeded holds at most one snapshot written
\* by the job per video; when the select fails the insert is performed.
C16_OneSnapshotPerDay ==
    /\ \A j \in 1..Len(job_rows) :
          job_rows[j].by = "job" /\ job_rows[j].check = "ok"
              => ~\E i \in 1..(j - 1) :
                     job_rows[i].p_id = job_rows[j].p_id /\ job_rows[i].day >= job_rows[j].day
    /\ \A d \in 0..MaxJobDay, vid \in {"v1", "v2", "3zKwIqxLTd4"} :
          (\A j \in 1..Len(job_rows) : job_rows[j].day = d => job_rows[j].check # "failed")
              => Cardinality({ j \in 1..Len(job_rows) :
                                 job_rows[j].p_id = vid /\ job_rows[j].day = d
                                 /\ job_rows[j].by = "job" }) <= 1
    /\ \A k \in 1..Len(job_last.log) :
          job_last.log[k].check = "failed"
              => job_last.log[k].outcome \in {"inserted", "rejected"}

\* A later run of the same day found the snapshot of an earlier run and
\* skipped the video.
C16_SecondRunSkips ==
    /\ job_runs >= 2
    /\ \E k \in 1..Len(job_last.log) :
          /\ job_last.log[k].outcome = "skipped"
          /\ \E j \in 1..Len(job_rows) :
                job_rows[j].p_id = job_last.log[k].p_id /\ job_rows[j].by = "job"
                /\ job_rows[j].day = job_day

----------------------------------------------------------------------------
(* SpecRefresh: the Refresh button of the Profile page and of the video    *)
(* platform overview, and its cooldown                                     *)

\* Clock ticks in a second, and the last tick of the clock.
TicksPerSecond == 2
MaxClock == 12
\* cooldown_seconds = 300, scaled to the clock of the model.
cooldown_seconds == 2
CooldownTicks == cooldown_seconds * TicksPerSecond
\* The session starts long after the epoch: the key's default 0 is more than
\* a cooldown ago.
StartClock == CooldownTicks

RefreshPages == {"profile", "youtube_overview"}

\* remaining = max(0, int(cooldown_seconds - (now_ts - last_ts))), with the
\* times in ticks; int() drops the fraction of a second.
Remaining(now_ts, last_ts) ==
    IF now_ts - last_ts >= CooldownTicks THEN 0
    ELSE (CooldownTicks - (now_ts - last_ts)) \div TicksPerSecond
\* disabled = remaining > 0; label = "Refresh" if not disabled else
\* f"{remaining}s" (the label "Refresh" is 0 here).
Button(page, now_ts, last_ts) ==
    [page |-> page, at |-> now_ts, disabled |-> Remaining(now_ts, last_ts) > 0,
     label |-> Remaining(now_ts, last_ts)]

InitRefresh ==
    /\ IdleOtherThanRefresh
    /\ refresh_now = StartClock
    /\ refresh_ss = [live_metrics |-> FALSE, user_refresh_cooldown |-> 0]
    /\ refresh_btn = NoButton
    /\ refresh_log = [last |-> -1, prev |-> -1, last_data |-> FALSE]

\* Time passes.
Tick ==
    /\ refresh_now < MaxClock
    /\ refresh_now' = refresh_now + 1
    /\ UNCHANGED <<refresh_ss, refresh_btn, refresh_log, otherThanRefresh>>

\* A script run that renders page without a click on Refresh: the lookup of
\* the first load when no live metrics are cached (live_data says that it
\* returned data), then the button.
RenderPage(page, live_data) ==
    /\ refresh_ss' = [refresh_ss EXCEPT
           !.live_metrics = refresh_ss.live_metrics \/ live_data]
    /\ refresh_btn' = Button(page, refresh_now, refresh_ss.user_refresh_cooldown)
    /\ UNCHANGED <<refresh_now, refresh_log, otherThanRefresh>>

\* A click on the Refresh button of the Profile page, which was rendered
\* enabled: the script runs again, the button returns True, the lookup is
\* made; with data the metrics and the cooldown time are stored and the
\* script reruns, without data a warning is shown.  (The run that follows a
\* click on the overview's button routes to the sidebar's page and never
\* reaches that button: see ClickRun.)
ClickRefresh(live_data, auto_data) ==
    /\ refresh_btn.page = "profile"
    /\ ~refresh_btn.disabled
    /\ Remaining(refresh_now, refresh_ss.user_refresh_cooldown) = 0
    /\ refresh_log' = [last |-> refresh_now, prev |-> refresh_log.last,
                       last_data |-> live_data]
    /\ refresh_ss' =
          IF live_data
          THEN [live_metrics |-> TRUE, user_refresh_cooldown |-> refresh_now]
          ELSE [refresh_ss EXCEPT !.live_metrics = refresh_ss.live_metrics \/ auto_data]
    /\ refresh_btn' = Button(refresh_btn.page, refresh_now,
                             refresh_ss'.user_refresh_cooldown)
    /\ UNCHANGED <<refresh_now, otherThanRefresh>>

NextRefresh ==
    \/ Tick
    \/ \E page \in RefreshPages, live_data \in BOOLEAN : RenderPage(page, live_data)
    \/ \E live_data \in BOOLEAN, auto_data \in BOOLEAN : ClickRefresh(live_data, auto_data)

SpecRefresh == InitRefresh /\ [][NextRefresh]_vars

----------------------------------------------------------------------------
(* Properties of the Refresh button (SpecRefresh)                          *)

\* C17: two lookups made by the Refresh button in one session are at least a
\* cooldown (300 seconds) apart, whether or not the earlier one returned
\* data; while less than a cooldown has passed since the last such lookup
\* the button is disabled and its label is the remaining whole seconds.
C17_RefreshLookupsCooldownApart ==
    /\ refresh_log.prev >= 0 => refresh_log.last - refresh_log.prev >= CooldownTicks
    /\ refresh_btn.page \in RefreshPages /\ refresh_log.last >= 0
       /\ refresh_btn.at - refresh_log.last < CooldownTicks
          => /\ refresh_btn.disabled
             /\ refresh_btn.label = Remaining(refresh_btn.at, refresh_log.last)

----------------------------------------------------------------------------
(* SpecRace: two sessions of one user submit credits for one project; the  *)
(* check and the insert of the loop over selected_roles are two backend    *)
(* calls, and the calls of the two sessions interleave                     *)

\* Submissions of one session.
MaxSubmits == 2

\* The user and the project of the submissions: both rows exist.
RaceUser == 1
RaceVideo == "v1"
CreditRow(rn) == [u_id |-> RaceUser, p_id |-> RaceVideo, u_role |-> rn]

\* The insert with a mutation: it does not depend on the check.
InsertAlways(ups, found, row) == Append(ups, row)
\* if not existing.data: user_projects.insert(row)
InsertIfAbsent(ups, found, row) == IF found THEN ups ELSE Append(ups, row)

InitRace ==
    /\ now = 0
    /\ projects = <<RaceVideo>>
    /\ youtube_metrics = {}
    /\ users = <<"ann@x.io">>
    /\ user_projects = <<>>
    /\ user_metrics = [u \in UserIds |-> NoRow]
    /\ lastOp = [kind |-> "init", ok |-> TRUE, u |-> 0, writes |-> <<>>]
    /\ series = NoSeries /\ InitSessionIdle /\ InitRedirectIdle
    /\ InitClientsIdle /\ InitExtractIdle /\ InitSearchIdle /\ InitJobIdle
    /\ InitRefreshIdle /\ InitInsightsIdle
    /\ InitRoutingIdle /\ InitRestoreIdle /\ InitStoreIdle /\ InitWindowIdle
    /\ InitFollowIdle /\ InitFeedIdle /\ InitMetricIdle /\ InitRolesIdle
    /\ InitRaceIdle

raceRest ==
    <<now, projects, youtube_metrics, users, user_metrics, lastOp, series, sessVars,
      redirVars, clientVars, extractVars, searchVars, jobVars, refreshVars, insightVars,
      navVars, restoreVars, storeVars, windowVars, followVars, feedVars, metricVars,
      rolesVars>>

\* Session s, in the loop of its submission, asks whether the credit for
\* the role of entry exists.
CheckCredit(s, entry) ==
    /\ race[s].pc = "idle"
    /\ race[s].done < MaxSubmits
    /\ race' = [race EXCEPT ![s].pc = "checked", ![s].role = RoleName(entry),
                            ![s].found = CreditExists(user_projects, RaceUser, RaceVideo,
                                                      RoleName(entry))]
    /\ UNCHANGED <<user_projects, raceRest>>

\* Session s goes on with the answer it got: it inserts the row when the
\* answer was empty.
InsertCredit(s) ==
    /\ race[s].pc = "checked"
    /\ user_projects' = InsertIfAbsent(user_projects, race[s].found, CreditRow(race[s].role))
    /\ race' = [race EXCEPT ![s].pc = "idle", ![s].done = @ + 1,
                            ![s].inserted = IF race[s].found THEN @
                                            ELSE @ \cup {race[s].role}]
    /\ UNCHANGED raceRest

NextRace ==
    \/ \E s \in Sessions, entry \in RoleEntries : CheckCredit(s, entry)
    \/ \E s \in Sessions : InsertCredit(s)

SpecRace == InitRace /\ [][NextRace]_vars

----------------------------------------------------------------------------
(* Properties of concurrent submissions (SpecRace)                         *)

RowsOf(rn) == { i \in 1..Len(user_projects) : user_projects[i] = CreditRow(rn) }

\* C18: the at-most-once rule is a check followed by an insert, without
\* atomicity.  Every row of a (user, project, role) was inserted by a
\* different session whose own check had found none, so one session alone
\* never writes a row twice; with two sessions whose checks both run before
\* either insert, the table ends with two identical rows.
C18_DuplicateOnlyByInterleavedChecks ==
    \A entry \in RoleEntries :
        LET rn == RoleName(entry)
        IN  /\ Cardinality(RowsOf(rn)) = Cardinality({ s \in Sessions : rn \in race[s].inserted })
            /\ (\E s \in Sessions : race[s].done = 0 /\ race[s].pc = "idle")
                   => Cardinality(RowsOf(rn)) <= 1

\* Both sessions have finished a submission of the same role and the table
\* holds two identical rows.
C18_TwoIdenticalRows ==
    /\ \A s \in Sessions : race[s].pc = "idle" /\ race[s].done >= 1
    /\ \E entry \in RoleEntries : Cardinality(RowsOf(RoleName(entry))) = 2

----------------------------------------------------------------------------
(* SpecTool: the standalone claim tool (claim_role.py) over the database   *)

\* The pattern of claim_role.py, r"(?:v=|youtu\.be/|embed/)([a-zA-Z0-9_-]{11})",
\* tried at lexeme i: here the dot is escaped.
ToolPrefixLen(url, i) ==
    CASE url[i].t = "v=" -> 1
      [] /\ i + 2 <= Len(url)
         /\ url[i].t = "youtu" /\ url[i + 1].t = "." /\ url[i + 2].t = "be/" -> 3
      [] url[i].t = "embed/" -> 1
      [] OTHER -> 0
ToolMatchAt(url, i) ==
    /\ ToolPrefixLen(url, i) > 0
    /\ i + ToolPrefixLen(url, i) <= Len(url)
    /\ url[i + ToolPrefixLen(url, i)].n >= 11
\* extract_video_id of claim_role.py
tool_extract_video_id(url) ==
    LET hits == { i \in 1..Len(url) : ToolMatchAt(url, i) }
    IN  IF hits = {} THEN NoId
        ELSE LET i == CHOOSE j \in hits : \A k \in hits : j <= k
             IN  url[i + ToolPrefixLen(url, i)].head

\* The loop over selected_roles of claim_role.py: one insert per entry.
RECURSIVE ToolInsertCredits(_, _, _, _)
ToolInsertCredits(ups, u, p, roles) ==
    IF roles = <<>> THEN ups
    ELSE ToolInsertCredits(Append(ups, [u_id |-> u, p_id |-> p, u_role |-> RoleName(Head(roles))]),
                           u, p, Tail(roles))

\* The Claim Role button of claim_role.py with all fields filled in: email
\* is used as typed; answer is what the tool's fetch_youtube_data returns
\* for a video not yet in projects.  The statistics of a new project go to
\* the table metrics, which no other part of the program reads.
ToolClaimRole(email, selected_roles, url, answer) ==
    LET video_id == tool_extract_video_id(url)
        existing == video_id \in Range(projects)
        users1   == UpsertUser(users, email)
        u_id     == UserIdOf(users1, email)
        stopped  == [kind |-> "tool_claim", ok |-> FALSE, u |-> 0, writes |-> <<>>]
    IN
    /\ now + 1 <= MaxTime
    /\ now' = now + 1
    /\ UNCHANGED otherThanDb
    /\ UNCHANGED <<youtube_metrics, user_metrics>>
    /\ IF selected_roles = <<>> \/ video_id = NoId \/ (~existing /\ answer = NoData)
       THEN /\ lastOp' = stopped
            /\ UNCHANGED <<projects, users, user_projects>>
       ELSE /\ projects' = IF existing THEN projects ELSE Append(projects, video_id)
            /\ users' = users1
            /\ user_projects' = ToolInsertCredits(user_projects, u_id, video_id, selected_roles)
            /\ lastOp' = [kind |-> "tool_claim", ok |-> TRUE, u |-> u_id,
                          writes |->
                            (IF existing THEN <<>> ELSE <<"projects", "metrics">>)
                            \o <<"users">>
                            \o Times(Len(selected_roles), "user_projects")]

NextTool ==
    \E email \in Viewers, roles \in Drafts, url \in Urls,
       answer \in StatsAt(now) \cup {NoData} :
       ToolClaimRole(email, roles, url, answer)

SpecTool == Init /\ [][NextTool]_vars

----------------------------------------------------------------------------
(* Properties of the standalone claim tool (SpecTool)                      *)

\* C19: in the standalone tool, submitting a role that the same user already
\* holds on the same project inserts no row: after any sequence of
\* submissions user_projects holds at most one row per (user, project,
\* role).
C19_ToolOneCreditPerTriple ==
    Cardinality(Range(user_projects)) = Len(user_projects)

----------------------------------------------------------------------------
(* SpecInsights: fetch_and_store_instagram_insights and                    *)
(* parse_metric_response                                                   *)

\* Metrics in one call when the caller names them.
MaxMetrics == 2

METRIC_CONFIG ==
    [reach |-> "time_series", profile_views |-> "total_value",
     accounts_engaged |-> "total_value", follower_count |-> "time_series"]
\* list(METRIC_CONFIG.keys())
MetricKeys == <<"reach", "profile_views", "accounts_engaged", "follower_count">>
\* METRIC_CONFIG.get(metric, "time_series") with a mutation: the type does
\* not depend on the metric.
MetricTypeAlwaysSeries(metric) == "time_series"
\* METRIC_CONFIG.get(metric, "time_series")
MetricTypeOf(metric) ==
    IF metric \in DOMAIN METRIC_CONFIG THEN METRIC_CONFIG[metric] ELSE "time_series"

\* The metrics argument: None or an empty list, or up to MaxMetrics names.
MetricArgs ==
    {<<>>} \cup UNION { [1..n -> Range(MetricKeys)] : n \in 1..MaxMetrics }

\* An entry of "values": has_value says that it has the key "value";
\* end_time is a timestamp that parses, one that does not, or none.
ValueEntry(has_value, end_time) == [has_value |-> has_value, end_time |-> end_time]
\* An item of "data" with its "values" (empty when the item has none).
MetricData(values) == [values |-> values]
ApiResponses ==
    { NoResponse,
      ApiResponse(TRUE, FALSE, <<>>),
      ApiResponse(TRUE, TRUE, <<>>),
      ApiResponse(TRUE, TRUE, <<MetricData(<<>>)>>),
      ApiResponse(TRUE, TRUE, <<MetricData(<<ValueEntry(TRUE, "invalid")>>)>>),
      ApiResponse(TRUE, TRUE, <<MetricData(<<ValueEntry(TRUE, "valid")>>)>>),
      ApiResponse(TRUE, TRUE, <<MetricData(<<ValueEntry(TRUE, "valid"),
                                             ValueEntry(FALSE, "valid"),
                                             ValueEntry(TRUE, "none"),
                                             ValueEntry(TRUE, "valid")>>)>>) }
\* The responses to the requests of one call.
ResponseLists ==
    [1..Len(MetricKeys) ->
        { NoResponse, ApiResponse(TRUE, TRUE, <<>>),
          ApiResponse(TRUE, TRUE, <<MetricData(<<ValueEntry(TRUE, "valid")>>)>>) }]

\* The loop over values: an entry gives a record when it has a value and
\* its end_time normalizes.
RECURSIVE CountRecords(_)
CountRecords(values) ==
    IF values = <<>> THEN 0
    ELSE (IF Head(values).has_value /\ Head(values).end_time = "valid" THEN 1 ELSE 0)
         + CountRecords(Tail(values))

\* parse_metric_response(metric_name, api_response, retrieved_at): the
\* number of records returned.
parse_metric_response(api_response) ==
    IF ~api_response.present \/ ~api_response.has_data THEN 0
    ELSE LET values == IF api_response.data # <<>> THEN api_response.data[1].values
                       ELSE <<>>
         IN  CountRecords(values)

\* The loop over metrics_list from position i on: the requests issued, the
\* number of records prepared, the number of errors.
RECURSIVE FetchLoop(_, _, _)
FetchLoop(metrics_list, i, responses) ==
    IF i > Len(metrics_list) THEN [requests |-> <<>>, prepared |-> 0, errors |-> 0]
    ELSE LET metric  == metrics_list[i]
             request == [metric |-> metric, metric_type |-> MetricTypeOf(metric),
                         period |-> "day"]
             records == IF responses[i].present THEN parse_metric_response(responses[i])
                        ELSE 0
             rest    == FetchLoop(metrics_list, i + 1, responses)
         IN  [requests |-> <<request>> \o rest.requests,
              prepared |-> records + rest.prepared,
              errors   |-> (IF records = 0 THEN 1 ELSE 0) + rest.errors]

\* fetch_and_store_instagram_insights(...): insert_ok says that the insert of
\* the prepared records succeeds.
fetch_and_store_instagram_insights(metrics, responses, insert_ok) ==
    LET metrics_list == IF metrics = <<>> THEN MetricKeys ELSE metrics
        r == FetchLoop(metrics_list, 1, responses)
        total_inserted == IF r.prepared > 0 /\ insert_ok THEN r.prepared ELSE 0
        total_errors == r.errors + (IF r.prepared > 0 /\ ~insert_ok THEN 1 ELSE 0)
    IN  [called |-> TRUE, requests |-> r.requests,
         success |-> total_inserted > 0 /\ total_errors = 0,
         total_inserted |-> total_inserted, total_errors |-> total_errors]

InitInsights ==
    /\ IdleOtherThanInsights
    /\ insights_in \in MetricArgs
    /\ insights_out = NoInsights
    /\ parse_out = NoParse

FetchAndStore(responses, insert_ok) ==
    /\ insights_out' = fetch_and_store_instagram_insights(insights_in, responses, insert_ok)
    /\ UNCHANGED <<insights_in, parse_out, otherThanInsights>>

ParseMetricResponse(metric, api_response) ==
    /\ parse_out' = [called |-> TRUE, metric |-> metric, response |-> api_response,
                     records |-> parse_metric_response(api_response), raised |-> FALSE]
    /\ UNCHANGED <<insights_in, insights_out, otherThanInsights>>

NextInsights ==
    \/ \E responses \in ResponseLists, insert_ok \in BOOLEAN :
          FetchAndStore(responses, insert_ok)
    \/ \E metric \in Range(MetricKeys), api_response \in ApiResponses \ {NoResponse} :
          ParseMetricResponse(metric, api_response)

SpecInsights == InitInsights /\ [][NextInsights]_vars

----------------------------------------------------------------------------
(* Properties of the insights functions (SpecInsights)                     *)

RequestedMetrics == IF insights_in = <<>> THEN MetricKeys ELSE insights_in

----------------------------------------------------------------------------
(* SpecRouting: the sidebar radio, the one-shot page override and the      *)
(* buttons of the Profile page and of the platform-detail pages            *)

\* The options of the sidebar radio; the radio has no key and keeps the
\* option the viewer selected, Profile (index=1) at first.
RadioPages == {"Home", "Profile", "Analytics", "Notifications", "Settings"}
\* The platform-detail pages, which only the page override reaches.
DetailPages == {"YouTube", "Instagram", "TikTok"}
Accounts3 == {"none", "ok", "expired"}

\* The buttons a page renders, by widget key.  show_instagram_overview
\* returns before its action buttons when no account is connected.
ButtonsOf(page, account) ==
    CASE page = "Profile" -> {"btn_youtube", "btn_instagram", "btn_tiktok"}
      [] page = "YouTube" ->
            {"btn_back_profile_youtube", "yt_live_refresh_btn", "btn_view_yt_analytics"}
      [] page = "Instagram" ->
            {"btn_back_profile_instagram"} \cup
            (IF account = "none" THEN {}
             ELSE {"ig_refresh_btn", "btn_view_ig_analytics"})
      [] page = "TikTok" -> {"btn_back_profile_tiktok", "btn_view_tiktok_analytics"}
      [] OTHER -> {}

\* The platform a detail page writes to selected_platform when it renders.
PlatformOf(page) ==
    CASE page = "YouTube" -> "youtube"
      [] page = "Instagram" -> "instagram"
      [] page = "TikTok" -> "tiktok"
      [] OTHER -> ""

\* The body of "if st.button(...)" for each button: the session state it
\* leaves, whether it ends in st.rerun(), whether it called the insights
\* fetcher.  ok says that the lookup or the fetch succeeded.
Handler(button, ss, account, ok) ==
    CASE button = "btn_youtube" ->
            [ss |-> [page_override |-> "YouTube", selected_platform |-> "youtube"],
             rerun |-> TRUE, fetched |-> FALSE]
      [] button = "btn_instagram" ->
            [ss |-> [page_override |-> "Instagram", selected_platform |-> "instagram"],
             rerun |-> TRUE, fetched |-> FALSE]
      [] button = "btn_tiktok" ->
            [ss |-> [page_override |-> "TikTok", selected_platform |-> "tiktok"],
             rerun |-> TRUE, fetched |-> FALSE]
      [] button \in {"btn_back_profile_youtube", "btn_back_profile_instagram",
                     "btn_back_profile_tiktok"} ->
            [ss |-> [ss EXCEPT !.page_override = "Profile"],
             rerun |-> TRUE, fetched |-> FALSE]
      [] button = "btn_view_yt_analytics" ->
            [ss |-> [page_override |-> "Analytics", selected_platform |-> "youtube"],
             rerun |-> TRUE, fetched |-> FALSE]
      [] button = "btn_view_ig_analytics" ->
            [ss |-> [page_override |-> "Analytics", selected_platform |-> "instagram"],
             rerun |-> TRUE, fetched |-> FALSE]
      [] button = "btn_view_tiktok_analytics" ->
            [ss |-> [page_override |-> "Analytics", selected_platform |-> "tiktok"],
             rerun |-> TRUE, fetched |-> FALSE]
      [] button = "ig_refresh_btn" ->
            [ss |-> ss, rerun |-> account = "ok" /\ ok, fetched |-> account = "ok"]
      [] OTHER -> \* yt_live_refresh_btn
            [ss |-> ss, rerun |-> ok, fetched |-> FALSE]

\* The page a script run routes to: the override when one is set, the
\* radio's page otherwise.
RoutedPage(radio, ss) ==
    IF ss.page_override # "" THEN ss.page_override ELSE radio
\* The routing block clears a set override before the page renders.
ClearOverride(ss) == [ss EXCEPT !.page_override = ""]
\* A detail page writes selected_platform first.
Entered(page, ss) ==
    IF page \in DetailPages THEN [ss EXCEPT !.selected_platform = PlatformOf(page)]
    ELSE ss

\* One script run without a clicked button among the rendered ones.
PlainRun(radio, ss, account) ==
    LET page == RoutedPage(radio, ss)
    IN  [ss |-> Entered(page, ClearOverride(ss)),
         screen |-> [page |-> page, buttons |-> ButtonsOf(page, account)],
         handled |-> FALSE, fetched |-> FALSE]

\* The script run a click triggers: st.button(key) returns True only in a
\* run that reaches the call for that key, that is when the routed page
\* renders the button; a handler ending in st.rerun() starts a second run.
ClickRun(radio, ss, account, button, ok) ==
    LET first == PlainRun(radio, ss, account)
    IN  IF button \notin first.screen.buttons THEN first
        ELSE LET h == Handler(button, first.ss, account, ok)
             IN  IF h.rerun
                 THEN [PlainRun(radio, h.ss, account) EXCEPT
                          !.handled = TRUE, !.fetched = h.fetched]
                 ELSE [first EXCEPT !.ss = h.ss, !.handled = TRUE,
                                    !.fetched = h.fetched]

InitRouting ==
    /\ IdleOtherThanRouting
    /\ nav_radio = "Profile"
    /\ nav_ss = [page_override |-> "", selected_platform |-> ""]
    /\ nav_account \in Accounts3
    /\ nav_screen = NoScreen
    /\ nav_last = NoClick

\* The viewer loads the app or selects a page in the sidebar.
SelectPage(p) ==
    LET r == PlainRun(p, nav_ss, nav_account)
    IN  /\ nav_radio' = p
        /\ nav_ss' = r.ss
        /\ nav_screen' = r.screen
        /\ UNCHANGED <<nav_account, nav_last, otherThanRouting>>

\* The viewer clicks a button of the page on screen.
ClickButton(button, ok) ==
    /\ button \in nav_screen.buttons
    /\ LET r == ClickRun(nav_radio, nav_ss, nav_account, button, ok)
       IN  /\ nav_ss' = r.ss
           /\ nav_screen' = r.screen
           /\ nav_last' = [button |-> button, on |-> nav_screen.page,
                           handled |-> r.handled, fetched |-> r.fetched,
                           shown |-> r.screen.page]
    /\ UNCHANGED <<nav_radio, nav_account, otherThanRouting>>

\* The viewer connects, reconnects or loses the photo-platform account
\* (Settings), which the next script run sees.
ChangeAccount(a) ==
    /\ nav_screen.page = "Settings"
    /\ a # nav_account
    /\ nav_account' = a
    /\ UNCHANGED <<nav_radio, nav_ss, nav_screen, nav_last, otherThanRouting>>

NextRouting ==
    \/ \E p \in RadioPages : SelectPage(p)
    \/ \E b \in nav_screen.buttons, ok \in BOOLEAN : ClickButton(b, ok)
    \/ \E a \in Accounts3 : ChangeAccount(a)

SpecRouting == InitRouting /\ [][NextRouting]_vars

----------------------------------------------------------------------------
(* Properties of the page routing (SpecRouting)                            *)

\* C21: a click on a button of a platform-detail page runs that button's
\* handler in the script run the click triggers; a click on Refresh Insights
\* with a connected, unexpired account invokes the insights fetcher, and a
\* click on View Analytics leads to the Analytics page.
C21_DetailPageClickHandled ==
    nav_last.on \in DetailPages =>
        /\ nav_last.handled
        /\ nav_last.button = "ig_refresh_btn" /\ nav_account = "ok" => nav_last.fetched
        /\ nav_last.button \in {"btn_view_yt_analytics", "btn_view_ig_analytics",
                                "btn_view_tiktok_analytics"}
              => nav_last.shown = "Analytics"

----------------------------------------------------------------------------
(* SpecRestore: the block of auth.py's module body that restores the       *)
(* backend session from the tokens stored in the session state             *)

\* What supabase.auth.get_session() answers: a session, None, an exception.
GetSessionAnswers == {"session", "none", "raises"}
\* What supabase.auth.refresh_session() answers: an exception, None, a
\* response without token attributes (AuthResponse), a session object with
\* access_token and refresh_token.
RefreshAnswers == {"raises", "none", "response", "session"}
\* Token values: the ones of the code exchange, the ones of a refresh.
TokenValues == {"t1", "t2"}

\* "supabase_access_token" in st.session_state and
\* "supabase_refresh_token" in st.session_state
HasBothTokens(ss) ==
    ss.supabase_access_token # None /\ ss.supabase_refresh_token # None

\* should_restore: always on a local environment; on a hosted one when
\* get_session() returns nothing or raises.
ShouldRestoreAlways(local, gs) == TRUE
should_restore(local, gs) == local \/ gs # "session"

\* The restoration block: the session state it leaves and the backend calls
\* it made, in order.
restore_session(ss, local, gs, set_raises, rf) ==
    IF ~HasBothTokens(ss) THEN [ss |-> ss, calls |-> <<>>]
    ELSE
    LET checked == IF local THEN <<>> ELSE <<"get_session">>
    IN
    IF ~should_restore(local, gs) THEN [ss |-> ss, calls |-> checked]
    ELSE IF ~set_raises THEN [ss |-> ss, calls |-> checked \o <<"set_session">>]
    ELSE
    LET calls == checked \o <<"set_session", "refresh_session">>
    IN  CASE rf = "raises" -> [ss |-> NoTokens, calls |-> calls]
          [] rf = "session" ->
                [ss |-> [supabase_access_token |-> "t2",
                         supabase_refresh_token |-> "t2"], calls |-> calls]
          [] OTHER -> [ss |-> ss, calls |-> calls]

InitRestore ==
    /\ IdleOtherThanRestore
    /\ restore_env \in BOOLEAN
    /\ restore_ss = NoTokens
    /\ restore_last = NoRestore

\* The code exchange of show_login stores the tokens it was given, each one
\* if it is not empty.
StoreTokens(access_token, refresh_token) ==
    /\ access_token # None \/ refresh_token # None
    /\ restore_ss' =
          [supabase_access_token |->
               IF access_token # None THEN access_token
               ELSE restore_ss.supabase_access_token,
           supabase_refresh_token |->
               IF refresh_token # None THEN refresh_token
               ELSE restore_ss.supabase_refresh_token]
    /\ UNCHANGED <<restore_env, restore_last, otherThanRestore>>

\* Logout, or the PKCE-error path: both tokens are deleted.
DeleteTokens ==
    /\ restore_ss # NoTokens
    /\ restore_ss' = NoTokens
    /\ UNCHANGED <<restore_env, restore_last, otherThanRestore>>

\* The module body of auth.py runs (the module is imported, or imported
\* again after its source changed) in a script run of the session.
RunModuleBody(gs, set_raises, rf) ==
    LET r == restore_session(restore_ss, restore_env, gs, set_raises, rf)
    IN  /\ restore_ss' = r.ss
        /\ restore_last' = [ran |-> TRUE, before |-> restore_ss, after |-> r.ss,
                            gs |-> gs, set_raises |-> set_raises, rf |-> rf,
                            calls |-> r.calls]
        /\ UNCHANGED <<restore_env, otherThanRestore>>

NextRestore ==
    \/ \E a \in {None, "t1"}, r \in {None, "t1"} : StoreTokens(a, r)
    \/ DeleteTokens
    \/ \E gs \in GetSessionAnswers, set_raises \in BOOLEAN, rf \in RefreshAnswers :
          RunModuleBody(gs, set_raises, rf)

SpecRestore == InitRestore /\ [][NextRestore]_vars

----------------------------------------------------------------------------
(* Properties of the session restoration (SpecRestore)                     *)

\* The number of calls of op in a call sequence.
Calls(calls, op) == Cardinality({i \in DOMAIN calls : calls[i] = op})

----------------------------------------------------------------------------
(* SpecStore: the records Refresh Insights inserts into instagram_insights *)
(* and the queries of the Analytics page and of the overview               *)

\* The last day of the model's calendar, the users, and the rows the table
\* may hold.
MaxInsightDay == 2
MaxInsightRows == 2
InsightDays == 0 .. MaxInsightDay
InsightUsers == {1, 2}
InsightMetrics == {"reach", "profile_views"}

\* A record of parse_metric_response: metric, value, end_time, retrieved_at
\* (value and retrieved_at play no part in the selection).
ParsedRecord(metric, end_time) == [metric |-> metric, end_time |-> end_time]
\* The fetcher's tagging loop: record["u_id"] = user_id when a user is given,
\* record["account_id"] = instagram_account_id.  A row is the dictionary that
\* is inserted: a column that is not a key of it is NULL in the table.
Tag(record, user_id, account_id) ==
    [c \in {"metric", "end_time", "u_id", "account_id"} |->
        CASE c = "u_id" -> user_id
          [] c = "account_id" -> account_id
          [] OTHER -> record[c]]

\* .eq(column, value): NULL equals nothing (and a column the table does not
\* have makes the whole query fail: no row is returned either).
Eq(row, column, value) == column \in DOMAIN row /\ row[column] = value

\* The query of fetch_instagram_daily_timeseries.
DailyQuery(table, u_id, metric_name, start, end) ==
    { r \in table : /\ Eq(r, "user_id", u_id)
                    /\ Eq(r, "metric", metric_name)
                    /\ r["end_time"] >= start
                    /\ r["end_time"] <= end }
\* The recent-insights query of show_instagram_overview (.limit(20), latest
\* first; the table of the model holds fewer rows).
RecentQuery(table, u_id) == { r \in table : Eq(r, "user_id", u_id) }

InitStore ==
    /\ IdleOtherThanStore
    /\ ig_table = {}
    /\ ig_query = NoQuery

\* Refresh Insights for user u: the prepared records are tagged and inserted.
StoreInsights(u, records) ==
    /\ records # {}
    /\ Cardinality(ig_table \cup { Tag(r, u, u) : r \in records }) <= MaxInsightRows
    /\ ig_table' = ig_table \cup { Tag(r, u, u) : r \in records }
    /\ UNCHANGED <<ig_query, otherThanStore>>

\* The Analytics page reads the daily series of a metric.
ReadDaily(u, metric, start, end) ==
    /\ start <= end
    /\ ig_query' = [reader |-> "daily", u_id |-> u, metric |-> metric,
                    start |-> start, end |-> end, table |-> ig_table,
                    rows |-> DailyQuery(ig_table, u, metric, start, end)]
    /\ UNCHANGED <<ig_table, otherThanStore>>

\* The overview reads the recent insights.
ReadRecent(u) ==
    /\ ig_query' = [reader |-> "recent", u_id |-> u, metric |-> "", start |-> 0,
                    end |-> 0, table |-> ig_table,
                    rows |-> RecentQuery(ig_table, u)]
    /\ UNCHANGED <<ig_table, otherThanStore>>

NextStore ==
    \/ \E u \in InsightUsers,
          records \in SUBSET { ParsedRecord(mt, d) : mt \in InsightMetrics, d \in InsightDays } :
          Cardinality(records) <= 2 /\ StoreInsights(u, records)
    \/ \E u \in InsightUsers, mt \in InsightMetrics, a \in InsightDays, b \in InsightDays :
          ReadDaily(u, mt, a, b)
    \/ \E u \in InsightUsers : ReadRecent(u)

SpecStore == InitStore /\ [][NextStore]_vars

----------------------------------------------------------------------------
(* Properties of the stored insight records (SpecStore)                    *)

\* C24: every record stored for a user when a reader queries for that user
\* is selected: by the daily-series query when its metric is the queried one
\* and its end time lies in the queried window, and by the recent-insights
\* query.
C24_StoredRecordsAreRead ==
    \A r \in ig_query.table :
        /\ (/\ ig_query.reader = "daily"
            /\ Eq(r, "u_id", ig_query.u_id)
            /\ r["metric"] = ig_query.metric
            /\ r["end_time"] >= ig_query.start /\ r["end_time"] <= ig_query.end)
              => r \in ig_query.rows
        /\ (ig_query.reader = "recent" /\ Eq(r, "u_id", ig_query.u_id))
              => r \in ig_query.rows

----------------------------------------------------------------------------
(* SpecWindow: the date window and the comparison period the Analytics     *)
(* page derives from the range preset                                      *)

\* The days the model's clock runs through.
MaxWindowDay == 40
Presets == {"Last 7 days", "Last 28 days", "Last 12 months"}

\* start_date = today - timedelta(days=...) of each preset.
StartOffset(preset) ==
    CASE preset = "Last 7 days" -> 6
      [] preset = "Last 28 days" -> 27
      [] OTHER -> 365

\* The window and the comparison period of a render.
AnalyticsWindow(preset, today) ==
    LET yesterday   == today - 1
        start_date  == today - StartOffset(preset)
        end_date    == yesterday
        period_days == (end_date - start_date) + 1
        prev_end    == start_date - 1
        prev_start  == prev_end - (period_days - 1)
    IN  [preset |-> preset, today |-> today, start_date |-> start_date,
         end_date |-> end_date, period_days |-> period_days,
         prev_start |-> prev_start, prev_end |-> prev_end]

InitWindow ==
    /\ IdleOtherThanWindow
    /\ win_today = 0
    /\ win_out = NoWindow

\* A UTC midnight passes.
NextUtcDay ==
    /\ win_today < MaxWindowDay
    /\ win_today' = win_today + 1
    /\ UNCHANGED <<win_out, otherThanWindow>>

\* The Analytics page is rendered with the preset selected in the radio.
RenderAnalytics(preset) ==
    /\ win_out' = AnalyticsWindow(preset, win_today)
    /\ UNCHANGED <<win_today, otherThanWindow>>

NextWindow ==
    \/ NextUtcDay
    \/ \E preset \in Presets : RenderAnalytics(preset)

SpecWindow == InitWindow /\ [][NextWindow]_vars

----------------------------------------------------------------------------
(* Properties of the range presets (SpecWindow)                            *)

\* The number of days a preset advertises.
Advertised(preset) ==
    CASE preset = "Last 7 days" -> 7
      [] preset = "Last 28 days" -> 28
      [] OTHER -> 365
\* The calendar days from a to b, both included.
DaysIn(a, b) == {d \in (a - 1) .. (b + 1) : a <= d /\ d <= b}

\* C25: the window of each preset ends at yesterday and contains exactly the
\* advertised number of days; the comparison period has as many days as the
\* window and ends on the day before the window starts.
C25_WindowHasAdvertisedDays ==
    win_out.preset \in Presets =>
        /\ win_out.end_date = win_out.today - 1
        /\ Cardinality(DaysIn(win_out.start_date, win_out.end_date))
              = Advertised(win_out.preset)
        /\ Cardinality(DaysIn(win_out.prev_start, win_out.prev_end))
              = Cardinality(DaysIn(win_out.start_date, win_out.end_date))
        /\ win_out.prev_end = win_out.start_date - 1

----------------------------------------------------------------------------
(* SpecFollow: the follow edges, one operation at a time                   *)

\* is_following: len(res.data or []) > 0 for the rows of the pair.
IsFollowingNever(table, follower_id, followed_id) == FALSE
is_following(table, follower_id, followed_id) ==
    table[<<follower_id, followed_id>>] > 0

\* follow_user: returns when the pair is followed already, inserts one row
\* otherwise.
follow_user(table, follower_id, followed_id) ==
    IF is_following(table, follower_id, followed_id) THEN table
    ELSE [table EXCEPT ![<<follower_id, followed_id>>] = @ + 1]

\* unfollow_user: delete().eq(follower_id).eq(followed_id) removes the rows
\* of the pair.
unfollow_user(table, follower_id, followed_id) ==
    [table EXCEPT ![<<follower_id, followed_id>>] = 0]

InitFollow ==
    /\ IdleOtherThanFollow
    /\ user_follows = NoFollows
    /\ follow_last = NoFollowOp

FollowUser(p) ==
    /\ user_follows' = follow_user(user_follows, p[1], p[2])
    /\ follow_last' = [op |-> "follow", pair |-> p, before |-> user_follows]
    /\ UNCHANGED otherThanFollow

UnfollowUser(p) ==
    /\ user_follows' = unfollow_user(user_follows, p[1], p[2])
    /\ follow_last' = [op |-> "unfollow", pair |-> p, before |-> user_follows]
    /\ UNCHANGED otherThanFollow

NextFollow ==
    \/ \E p \in FollowPairs : FollowUser(p)
    \/ \E p \in FollowPairs : UnfollowUser(p)

SpecFollow == InitFollow /\ [][NextFollow]_vars

----------------------------------------------------------------------------
(* Properties of the follow edges (SpecFollow)                             *)

\* C26: follow_user on a pair that has an edge inserts nothing, on a pair
\* without an edge it adds exactly one edge; after unfollow_user the pair has
\* no edge and is_following is false; neither changes the edges of another
\* pair.
C26_FollowIdempotentUnfollowRemoves ==
    follow_last.op # "none" =>
        LET p == follow_last.pair
            before == follow_last.before
        IN  /\ (follow_last.op = "follow" /\ before[p] > 0) => user_follows = before
            /\ (follow_last.op = "follow" /\ before[p] = 0) => user_follows[p] = 1
            /\ follow_last.op = "unfollow"
                  => /\ user_follows[p] = 0
                     /\ ~is_following(user_follows, p[1], p[2])
            /\ \A q \in FollowPairs \ {p} : user_follows[q] = before[q]

\* follow_user was called for a pair that was followed already, while another
\* pair had an edge too.
C26_RefollowSeen ==
    /\ follow_last.op = "follow"
    /\ follow_last.before[follow_last.pair] = 1
    /\ \E q \in FollowPairs \ {follow_last.pair} : user_follows[q] = 1

----------------------------------------------------------------------------
(* SpecFeed: the Home feed built from the fetched activities               *)

\* The fetched activities of a render, and the feed's length
\* (deduplicated_activities[:10], scaled to the model).
MaxActivities == 4
FeedLimit == 2
FeedProjects == {1, 2, 3}
\* Timestamps, in the order in which the code compares them.
FeedTimes == {1, 2, 3}

\* An activity of either kind, new_project or metric_update: its project and
\* its timestamp (the kind and the display fields play no part in the feed's
\* selection).
Activity(p_id, timestamp) == [p_id |-> p_id, timestamp |-> timestamp]
Activities == { Activity(p, t) : p \in FeedProjects, t \in FeedTimes }

\* if current_timestamp > existing_timestamp: the later activity replaces
\* the one kept for the project.
ReplacesAlways(current_timestamp, existing_timestamp) == TRUE
Replaces(current_timestamp, existing_timestamp) ==
    current_timestamp > existing_timestamp

\* The loop over all_activities from index i on: activities_by_project as
\* the projects in the order in which the dictionary got them (order) and the
\* activity kept for each (kept).
RECURSIVE DedupByProject(_, _, _, _)
DedupByProject(all_activities, i, order, kept) ==
    IF i > Len(all_activities) THEN [order |-> order, kept |-> kept]
    ELSE LET activity == all_activities[i]
             p_id == activity.p_id
         IN  IF \A j \in DOMAIN order : order[j] # p_id
             THEN DedupByProject(all_activities, i + 1, Append(order, p_id),
                                 [kept EXCEPT ![p_id] = activity])
             ELSE IF Replaces(activity.timestamp, kept[p_id].timestamp)
             THEN DedupByProject(all_activities, i + 1, order,
                                 [kept EXCEPT ![p_id] = activity])
             ELSE DedupByProject(all_activities, i + 1, order, kept)

\* list.sort(key=timestamp, reverse=True): stable, latest first.  An
\* activity goes behind the ones that are not earlier than it.
InsertDesc(sorted, a) ==
    LET k == Cardinality({j \in DOMAIN sorted : sorted[j].timestamp >= a.timestamp})
    IN  SubSeq(sorted, 1, k) \o <<a>> \o SubSeq(sorted, k + 1, Len(sorted))
RECURSIVE SortDesc(_, _, _)
SortDesc(list, i, sorted) ==
    IF i > Len(list) THEN sorted
    ELSE SortDesc(list, i + 1, InsertDesc(sorted, list[i]))

\* feed_items of show_home_page.
feed_items(all_activities) ==
    LET d == DedupByProject(all_activities, 1, <<>>,
                            [p \in FeedProjects |-> Activity(0, 0)])
        deduplicated == [j \in DOMAIN d.order |-> d.kept[d.order[j]]]
        sorted == SortDesc(deduplicated, 1, <<>>)
    IN  SubSeq(sorted, 1, IF Len(sorted) < FeedLimit THEN Len(sorted) ELSE FeedLimit)

InitFeed ==
    /\ IdleOtherThanFeed
    /\ \E n \in 0 .. MaxActivities : feed_in \in [1 .. n -> Activities]
    /\ feed_out = NoFeed

\* The Home page is rendered.
BuildFeed ==
    /\ ~feed_out.built
    /\ feed_out' = [built |-> TRUE, items |-> feed_items(feed_in)]
    /\ UNCHANGED <<feed_in, otherThanFeed>>

NextFeed == BuildFeed

SpecFeed == InitFeed /\ [][NextFeed]_vars

----------------------------------------------------------------------------
(* Properties of the Home feed (SpecFeed)                                  *)

\* The timestamps of the fetched activities of project p.
TimesOfProject(p) ==
    {feed_in[i].timestamp : i \in {j \in DOMAIN feed_in : feed_in[j].p_id = p}}
FetchedProjects == {feed_in[i].p_id : i \in DOMAIN feed_in}
ShownProjects == {feed_out.items[i].p_id : i \in DOMAIN feed_out.items}

\* C27: the feed has at most 10 items (the limit), no project twice, is in
\* non-increasing order of timestamp, each item carries the greatest
\* timestamp of the fetched activities of its project, and every project left
\* out has no timestamp greater than that of the last item shown.
C27_FeedLatestPerProjectTopTen ==
    feed_out.built =>
        LET items == feed_out.items
        IN  /\ Len(items) <= FeedLimit
            /\ \A i, j \in DOMAIN items : i # j => items[i].p_id # items[j].p_id
            /\ \A i, j \in DOMAIN items :
                  i < j => items[i].timestamp >= items[j].timestamp
            /\ \A i \in DOMAIN items :
                  /\ items[i].timestamp \in TimesOfProject(items[i].p_id)
                  /\ \A t \in TimesOfProject(items[i].p_id) : t <= items[i].timestamp
            /\ \A p \in FetchedProjects \ ShownProjects :
                  /\ items # <<>>
                  /\ \A t \in TimesOfProject(p) : t <= items[Len(items)].timestamp

\* A full feed with a project left out, and a shown project whose later
\* activity came after its earlier one in the fetched list.
C27_FullFeedProjectLeftOut ==
    /\ feed_out.built
    /\ Len(feed_out.items) = FeedLimit
    /\ FetchedProjects \ ShownProjects # {}
    /\ \E i, j \in DOMAIN feed_in :
          /\ i < j /\ feed_in[i].p_id = feed_in[j].p_id
          /\ feed_in[i].timestamp < feed_in[j].timestamp
          /\ feed_in[i].p_id \in ShownProjects

----------------------------------------------------------------------------
(* SpecMetric: show_analytics_page, its views and the selected metric      *)

AnalyticsPlatforms == {"youtube", "instagram", "tiktok"}
\* metric_options of the video platform (and of the combined view) and of
\* the photo platform; metric_map has exactly these keys.
YoutubeMetrics == <<"Views", "Likes", "Comments">>
InstagramMetrics == <<"Reach", "Profile Views", "Accounts Engaged", "Followers">>
SeqRange(q) == {q[i] : i \in DOMAIN q}

\* The buttons that open a platform's analytics from the overall view.
OpenButtons == {"btn_open_youtube_analytics", "btn_open_instagram_analytics",
                "btn_open_tiktok_analytics"}
OpenedPlatform(button) ==
    CASE button = "btn_open_youtube_analytics" -> "youtube"
      [] button = "btn_open_instagram_analytics" -> "instagram"
      [] OTHER -> "tiktok"

\* if "selected_analytics_metric" not in st.session_state: the first option.
SelectDefault(ss, metric_options) ==
    IF ss.selected_analytics_metric = ""
    THEN [ss EXCEPT !.selected_analytics_metric = metric_options[1]]
    ELSE ss

\* One pass of show_analytics_page; yt_data and ig_data say whether the
\* series of the video platform and of the photo platform hold rows.
RenderAnalyticsPage(ss, yt_data, ig_data) ==
    LET ss1 == IF ss.analytics_view = "" THEN [ss EXCEPT !.analytics_view = "overall"]
               ELSE ss
        analytics_view == ss1.analytics_view
        platform == IF ss1.selected_platform = "" THEN "youtube"
                    ELSE ss1.selected_platform
        back == IF analytics_view = "overall" THEN {} ELSE {"btn_back_overview"}
        Early == [ss |-> ss1, options |-> <<>>, buttons |-> back,
                  looked_up |-> FALSE, key_error |-> FALSE]
        Full(metric_options) ==
            LET ss2 == SelectDefault(ss1, metric_options)
            IN  [ss |-> ss2, options |-> metric_options,
                 buttons |-> back
                     \cup (IF analytics_view = "overall" THEN OpenButtons ELSE {})
                     \cup SeqRange(metric_options),
                 looked_up |-> TRUE,
                 key_error |-> ss2.selected_analytics_metric \notin SeqRange(metric_options)]
    IN  IF analytics_view # "overall" /\ platform \notin {"youtube", "instagram"}
        THEN Early
        ELSE IF platform = "youtube"
        THEN IF yt_data THEN Full(YoutubeMetrics) ELSE Early
        ELSE IF platform = "instagram"
        THEN IF ig_data THEN Full(InstagramMetrics) ELSE Early
        ELSE Full(YoutubeMetrics)

\* The handler of a button of the page.
AnalyticsHandler(ss, button) ==
    CASE button = "btn_back_overview" -> [ss EXCEPT !.analytics_view = "overall"]
      [] button \in OpenButtons ->
            [ss EXCEPT !.selected_platform = OpenedPlatform(button),
                       !.analytics_view = "platform"]
      [] OTHER -> [ss EXCEPT !.selected_analytics_metric = button]

Shown(r, yt_data, ig_data) ==
    [rendered |-> TRUE, yt_data |-> yt_data, ig_data |-> ig_data,
     options |-> r.options, buttons |-> r.buttons,
     looked_up |-> r.looked_up, key_error |-> r.key_error]

InitMetric ==
    /\ IdleOtherThanMetric
    /\ an_ss = [analytics_view |-> "", selected_platform |-> "",
                selected_analytics_metric |-> ""]
    /\ an_last = NoAnalytics

\* The viewer comes to the Analytics page from a page that set
\* selected_platform to p (the Profile page and the platform overviews do).
EnterAnalytics(p, yt_data, ig_data) ==
    LET r == RenderAnalyticsPage([an_ss EXCEPT !.selected_platform = p],
                                 yt_data, ig_data)
    IN  /\ an_ss' = r.ss
        /\ an_last' = Shown(r, yt_data, ig_data)
        /\ UNCHANGED otherThanMetric

\* The viewer clicks a button of the Analytics page: the run reaches the
\* button, its handler runs and ends in st.rerun().
ClickAnalytics(button, yt_data, ig_data) ==
    /\ button \in an_last.buttons
    /\ LET first == RenderAnalyticsPage(an_ss, yt_data, ig_data)
       IN  /\ button \in first.buttons
           /\ LET r == RenderAnalyticsPage(AnalyticsHandler(first.ss, button),
                                           yt_data, ig_data)
              IN  /\ an_ss' = r.ss
                  /\ an_last' = Shown(r, yt_data, ig_data)
    /\ UNCHANGED otherThanMetric

NextMetric ==
    \/ \E p \in AnalyticsPlatforms, yt_data \in BOOLEAN, ig_data \in BOOLEAN :
          EnterAnalytics(p, yt_data, ig_data)
    \/ \E b \in OpenButtons \cup {"btn_back_overview"} \cup SeqRange(YoutubeMetrics)
                 \cup SeqRange(InstagramMetrics), yt_data \in BOOLEAN, ig_data \in BOOLEAN :
          ClickAnalytics(b, yt_data, ig_data)

SpecMetric == InitMetric /\ [][NextMetric]_vars

----------------------------------------------------------------------------
(* Properties of the Analytics page (SpecMetric)                           *)

\* C28: after every render of the Analytics page, the metric held in
\* selected_analytics_metric is one of the metric options the page shows,
\* and the lookup of the selected metric in the metric map does not fail.
C28_SelectedMetricIsAnOption ==
    /\ an_last.looked_up
          => an_ss.selected_analytics_metric \in SeqRange(an_last.options)
    /\ ~an_last.key_error

----------------------------------------------------------------------------
(* SpecRoles: update_user_metrics, fetch_live_metrics_for_user and         *)
(* fetch_user_daily_timeseries over a list of credit rows in which a       *)
(* project can occur several times (one row per role)                      *)

\* The most credit rows of the user.
MaxCreditRows == 3
CreditLists == UNION { [1..n -> Videos] : n \in 0..MaxCreditRows }

\* The stored history: the first video has the snapshots of the days in
\* days1 (counters that also go down), the second has one every day or none.
V1At(d) == IF d = 0 THEN S100 ELSE IF d = 1 THEN S140 ELSE S130
HistoryOf(days1, has2) ==
    { Snapshot("v1", StartIso(d), V1At(d)) : d \in days1 }
    \cup (IF has2 THEN { Snapshot("v2", StartIso(d), GrowingAt(d)) : d \in Days }
          ELSE {})

\* What the video platform reports live for a video.
LiveStats(p) == IF p = "v1" THEN [view_count |-> 150, like_count |-> 9, comment_count |-> 5]
                ELSE [view_count |-> 60, like_count |-> 4, comment_count |-> 3]

VideoNo(p) == IF p = "v1" THEN 1 ELSE 2
\* The rows of a response in ascending order of fetched_at (then project).
RECURSIVE Ascending(_)
Ascending(rows) ==
    IF rows = {} THEN <<>>
    ELSE LET m == CHOOSE x \in rows : \A y \in rows :
                      \/ x.fetched_at < y.fetched_at
                      \/ x.fetched_at = y.fetched_at /\ VideoNo(x.p_id) <= VideoNo(y.p_id)
         IN  <<m>> \o Ascending(rows \ {m})
\* order("fetched_at", desc=True)
Descending(rows) ==
    LET a == Ascending(rows) IN [i \in 1..Len(a) |-> a[Len(a) + 1 - i]]

RECURSIVE SelectPerCredit(_, _)
\* A join of the rows with the credit rows: one copy of a row per credit.
SelectPerCredit(rows, pids) ==
    IF pids = <<>> THEN <<>>
    ELSE LET Hit(r) == r.p_id = Head(pids)
         IN  SelectSeq(rows, Hit) \o SelectPerCredit(rows, Tail(pids))

\* .in_("p_id", pids): the rows whose p_id is in the list, each once.
SelectIn(rows, pids) ==
    LET Hit(r) == r.p_id \in Range(pids) IN SelectSeq(rows, Hit)

RECURSIVE FirstPerProject(_, _)
\* for r in rows: if pid not in seen: keep r; seen.add(pid)
FirstPerProject(rows, seen) ==
    IF rows = <<>> THEN <<>>
    ELSE IF Head(rows).p_id \in seen THEN FirstPerProject(Tail(rows), seen)
    ELSE <<Head(rows)>> \o FirstPerProject(Tail(rows), seen \cup {Head(rows).p_id})

RECURSIVE SumList(_, _)
\* sum(m.get(col, 0) or 0 for m in latest_metrics)
SumList(rows, col) ==
    IF rows = <<>> THEN 0 ELSE Head(rows)[col] + SumList(Tail(rows), col)

TotalsOf(rows) ==
    [views |-> SumList(rows, "view_count"), likes |-> SumList(rows, "like_count"),
     comments |-> SumList(rows, "comment_count")]

\* The view youtube_latest_metrics: the most recent snapshot per project.
LatestView(ms) ==
    Ascending({ m \in ms : \A o \in ms : o.p_id = m.p_id => o.fetched_at <= m.fetched_at })

\* The totals update_user_metrics upserts, read from youtube_latest_metrics.
LatestPathTotals(project_ids, ms) ==
    IF project_ids = <<>> THEN TotalsOf(<<>>)
    ELSE TotalsOf(SelectIn(LatestView(ms), project_ids))

\* The totals update_user_metrics upserts when the view cannot be read.
FallbackPathTotals(project_ids, ms) ==
    IF project_ids = <<>> THEN TotalsOf(<<>>)
    ELSE TotalsOf(FirstPerProject(SelectIn(Descending(ms), project_ids), {}))

\* data["items"] for the comma-joined ids: the videos the platform knows,
\* once per requested id (repeats) or once per video.
ApiItems(ids, known, repeats) ==
    LET Known(p) == p \in known
        asked == SelectSeq(ids, Known)
    IN  IF repeats THEN [i \in 1..Len(asked) |-> [p_id |-> asked[i], fetched_at |-> 0]]
        ELSE Ascending({ [p_id |-> p, fetched_at |-> 0] : p \in Range(asked) })

RECURSIVE LiveDict(_, _)
\* for item in data["items"]: live_metrics[p_id] = {...}
LiveDict(items, live_metrics) ==
    IF items = <<>> THEN live_metrics
    ELSE LET p == Head(items).p_id
         IN  LiveDict(Tail(items),
                      [q \in DOMAIN live_metrics \cup {p} |->
                          IF q = p THEN LiveStats(p) ELSE live_metrics[q]])

\* fetch_live_metrics_for_user and the sums of the Profile page over
\* live_metrics.values(); <<>> when the page has nothing to show.
LiveTotals(project_ids, known, repeats) ==
    LET live_metrics == LiveDict(ApiItems(project_ids, known, repeats), <<>>)
        values == { [p_id |-> p, view_count |-> live_metrics[p].view_count,
                     like_count |-> live_metrics[p].like_count,
                     comment_count |-> live_metrics[p].comment_count] :
                        p \in DOMAIN live_metrics }
    IN  IF project_ids = <<>> \/ DOMAIN live_metrics = {} THEN <<>>
        ELSE [views |-> SumCol(values, "view_count"),
              likes |-> SumCol(values, "like_count"),
              comments |-> SumCol(values, "comment_count")]

\* fetch_user_daily_timeseries over the list of credit rows.
DailySeries(pids, ms, start, end) ==
    LET baseline_resp == SelectIn(Descending({ m \in ms : m.fetched_at < start }), pids)
        baseline_rows == FirstPerProject(baseline_resp, {})
        range_resp == SelectIn(Ascending({ m \in ms : m.fetched_at >= start
                                                       /\ m.fetched_at <= end }), pids)
        rows     == baseline_rows \o range_resp
        df       == Range(rows)
        inc_df   == UNION { Increments(df, pid) : pid \in { r.p_id : r \in df } }
        filtered == { r \in inc_df : r.date >= DayOf(start) }
        dates    == { r.date : r \in filtered }
        agg(d)   == LET day == { r \in filtered : r.date = d }
                    IN  [views    |-> SumCol(day, "view_count_inc"),
                         likes    |-> SumCol(day, "like_count_inc"),
                         comments |-> SumCol(day, "comment_count_inc")]
    IN  IF pids = <<>> \/ rows = <<>> \/ dates = {} THEN <<>>
        ELSE [d \in DayOf(start)..DayOf(end) |->
                 IF d \in dates THEN agg(d)
                 ELSE [views |-> 0, likes |-> 0, comments |-> 0]]

\* The aggregate of one kind for a list of credit rows.
AggregateOf(kind, pids, ms, known, repeats, start, end) ==
    CASE kind = "latest"   -> LatestPathTotals(pids, ms)
      [] kind = "fallback" -> FallbackPathTotals(pids, ms)
      [] kind = "live"     -> LiveTotals(pids, known, repeats)
      [] OTHER             -> DailySeries(pids, ms, start, end)

InitRoles ==
    /\ IdleOtherThanRoles
    /\ agg_credits \in CreditLists
    /\ agg_table \in { HistoryOf(days1, has2) : days1 \in SUBSET Days, has2 \in BOOLEAN }
    /\ agg_out = NoAggregate

\* What a computation leaves behind: its arguments and its result.
Computed(kind, known, repeats, start, end) ==
    [kind |-> kind, known |-> known, repeats |-> repeats,
     start |-> start, end |-> end,
     value |-> AggregateOf(kind, agg_credits, agg_table, known, repeats, start, end)]

\* update_user_metrics with the view youtube_latest_metrics readable.
UpdateFromLatest ==
    /\ agg_out' = Computed("latest", {}, FALSE, -1, -1)
    /\ UNCHANGED <<agg_credits, agg_table, otherThanRoles>>
\* update_user_metrics when reading the view raises.
UpdateFromFallback ==
    /\ agg_out' = Computed("fallback", {}, FALSE, -1, -1)
    /\ UNCHANGED <<agg_credits, agg_table, otherThanRoles>>
\* The Profile page fetches and sums the live metrics.
ShowLiveTotals(known, repeats) ==
    /\ agg_out' = Computed("live", known, repeats, -1, -1)
    /\ UNCHANGED <<agg_credits, agg_table, otherThanRoles>>
\* The Analytics page asks for the days first..last.
FetchDailySeries(first, last) ==
    /\ first <= last
    /\ agg_out' = Computed("series", {}, FALSE, StartIso(first), EndIso(last))
    /\ UNCHANGED <<agg_credits, agg_table, otherThanRoles>>

NextRoles ==
    \/ UpdateFromLatest
    \/ UpdateFromFallback
    \/ \E known \in SUBSET Videos, repeats \in BOOLEAN : ShowLiveTotals(known, repeats)
    \/ \E first \in Days, last \in Days : FetchDailySeries(first, last)

SpecRoles == InitRoles /\ [][NextRoles]_vars

----------------------------------------------------------------------------
(* Properties of the aggregates over credit rows (SpecRoles)               *)

\* The credit rows with one row kept per project.
OneRolePerProject(pids) ==
    LET First(i) == \A j \in 1..(i - 1) : pids[j] # pids[i]
        RECURSIVE Keep(_)
        Keep(i) == IF i > Len(pids) THEN <<>>
                   ELSE (IF First(i) THEN <<pids[i]>> ELSE <<>>) \o Keep(i + 1)
    IN  Keep(1)

\* The latest snapshot of project p, as a set of at most one row.
LatestOf(ms, p) ==
    { m \in ms : m.p_id = p /\ \A o \in ms : o.p_id = p => o.fetched_at <= m.fetched_at }

\* C30: every aggregate computed for a user equals the aggregate computed
\* with one credit row per project, and the cached totals (both paths) are
\* the sums of one latest snapshot per credited project: a project credited
\* under several roles is counted exactly once.
C30_ProjectCountedOnce ==
    /\ agg_out.kind # "none" =>
          agg_out.value = AggregateOf(agg_out.kind, OneRolePerProject(agg_credits),
                                      agg_table, agg_out.known, agg_out.repeats,
                                      agg_out.start, agg_out.end)
    /\ agg_out.kind \in {"latest", "fallback"} =>
          agg_out.value.views =
              SumCol(UNION { LatestOf(agg_table, p) : p \in Range(agg_credits) },
                     "view_count")
    /\ agg_out.kind = "live" /\ agg_out.value # <<>> =>
          agg_out.value.views =
              SumCol({ [p_id |-> p, view_count |-> LiveStats(p).view_count] :
                          p \in Range(agg_credits) \cap agg_out.known }, "view_count")

\* C30 witness: the daily series of a user holding two roles on the first
\* video has been computed and a day of it has a positive increment.
C30_TwoRolesSeriesSeen ==
    /\ agg_out.kind = "series"
    /\ \E i, j \in 1..Len(agg_credits) :
          i # j /\ agg_credits[i] = "v1" /\ agg_credits[j] = "v1"
    /\ agg_out.value # <<>>
    /\ \E d \in DOMAIN agg_out.value : agg_out.value[d].views > 0
====
